---- MODULE Spec2Model ----
(***************************************************************************)
(* Plan overlay tool: the geo-referencing pipeline of the client           *)
(* (PlanOverlayTool: processDocument, requestRefinement, handleDeepRefine, *)
(* handleReset, corner drags) and the bounds arithmetic of the server      *)
(* (calculateBounds, calculateBoundsFromCorner, applyAdjustment and the    *)
(* clamp of POST /api/ai/deep-refine).  Further specifications cover       *)
(* single calls of the server's functions: decodePolyline (PolylineSpec,   *)
(* PolylineLive; DecodersSpec runs its two copies side by side),           *)
(* calculateBoundsFromCorner and applyAdjustment (GeometrySpec),           *)
(* ocrPageWithRetry and ocrWithRetry (OcrSpec), the sessions map of        *)
(* POST /api/ai/refine (SessionSpec), and geocodeIntersection              *)
(* (GeocodeSpec).                                                          *)
(*                                                                         *)
(* Numbers.  Lengths are integers in sub-units of 1/Scale metre.  Angles   *)
(* are integers in units of 1/(METERS_PER_LAT_DEG * Scale) degree, the     *)
(* angle that one length sub-unit subtends along a meridian, so that       *)
(* `metres / 111_000` (metres to degrees of latitude) maps a length to the *)
(* angle with the same number.  Math.cos(latitude) is a two-band rational  *)
(* table (Cos).  Every input is chosen so that each division of the code   *)
(* is exact in these units (ArithmeticExact).                              *)
(***************************************************************************)
EXTENDS Integers, Sequences, FiniteSets, TLC

\* a value that may be null or undefined: None, or Some(x) holding x
None == << >>

Some(x) == << x >>

Val(o) == o[1]

\* no document (a null data URL, a null session id)
NoDoc == 0

Abs(x) == IF x < 0 THEN -x ELSE x

\* Math.sign
Sign(x) == IF x > 0 THEN 1 ELSE IF x < 0 THEN -1 ELSE 0

Max(a, b) == IF a >= b THEN a ELSE b

Min(a, b) == IF a <= b THEN a ELSE b

(***************************************************************************)
(* Units                                                                   *)
(***************************************************************************)
METERS_PER_LAT_DEG == 111000

\* length sub-units per metre
Scale == 6 * 10

\* a length given in whole metres
Meters(m) == m * Scale

\* an angle given in thousandths of a degree
MilliDeg(x) == x * (METERS_PER_LAT_DEG \div 1000) * Scale

\* |latitude| below which Cos is the equatorial band
TropicLimit == MilliDeg(15 * 1000)

\* Math.cos((lat * Math.PI) / 180) as a fraction: about 1 near the equator
\* (cos 4.5 deg = 0.997), about 5/6 at mid latitudes (cos 33.4 deg = 0.835)
Cos(lat) ==
    IF Abs(lat) < TropicLimit THEN [num |-> 1, den |-> 1]
                              ELSE [num |-> 5, den |-> 6]

\* metres / 111_000: metres north to degrees of latitude
metersToLat(m) == m

\* metres / (Math.cos(latRadians) * 111_000): metres east to degrees of longitude
metersToLng(m, lat) == (m \div Cos(lat).num) * Cos(lat).den

\* degrees of latitude * 111_000
latToMeters(d) == d

\* degrees of longitude * 111_000 * Math.cos(lat)
lngToMeters(d, lat) == (d \div Cos(lat).den) * Cos(lat).num

(***************************************************************************)
(* Bounds                                                                  *)
(***************************************************************************)
Bounds(n, s, e, w) == [north |-> n, south |-> s, east |-> e, west |-> w]

DEFAULT_BOUNDS ==
    Bounds(MilliDeg(33500), MilliDeg(33300), MilliDeg(-111850), MilliDeg(-112050))

centerOf(b) ==
    [lat |-> (b.north + b.south) \div 2, lng |-> (b.east + b.west) \div 2]

\* width and height (metres) of a plan whose longest side is sizeMeters;
\* aspectRatio = width / height is the fraction aspect.w / aspect.h
planWidth(sizeMeters, aspect) ==
    IF aspect.w >= aspect.h THEN sizeMeters
                            ELSE (sizeMeters * aspect.w) \div aspect.h

planHeight(sizeMeters, aspect) ==
    IF aspect.w >= aspect.h THEN (sizeMeters * aspect.h) \div aspect.w
                            ELSE sizeMeters

calculateBounds(center, sizeMeters, aspect) ==
    LET latDelta == metersToLat(planHeight(sizeMeters, aspect)) \div 2
        lngDelta == metersToLng(planWidth(sizeMeters, aspect), center.lat) \div 2
    IN  Bounds(center.lat + latDelta, center.lat - latDelta,
               center.lng + lngDelta, center.lng - lngDelta)

\* a faulty variant that centres the plan on the corner point, for comparison
calculateBoundsAroundCorner(corner, cornerPosition, sizeMeters, aspect) ==
    calculateBounds(corner, sizeMeters, aspect)

calculateBoundsFromCorner(corner, cornerPosition, sizeMeters, aspect) ==
    LET latDelta == metersToLat(planHeight(sizeMeters, aspect))
        lngDelta == metersToLng(planWidth(sizeMeters, aspect), corner.lat)
    IN  CASE cornerPosition = "northeast" ->
               Bounds(corner.lat, corner.lat - latDelta, corner.lng, corner.lng - lngDelta)
          [] cornerPosition = "southwest" ->
               Bounds(corner.lat + latDelta, corner.lat, corner.lng + lngDelta, corner.lng)
          [] cornerPosition = "southeast" ->
               Bounds(corner.lat + latDelta, corner.lat, corner.lng, corner.lng - lngDelta)
          [] OTHER ->
               Bounds(corner.lat, corner.lat - latDelta, corner.lng + lngDelta, corner.lng)

\* an adjustment: shiftMeters.north and .east in length sub-units, scaleFactor
\* an integer, confidence in hundredths
Adjustment(n, e, k, c) == [north |-> n, east |-> e, scaleFactor |-> k, confidence |-> c]

\* a faulty variant that scales about the south-west corner, so that the
\* centre moves with scaleFactor, for comparison
applyAdjustmentFromCorner(currentBounds, adjustment) ==
    LET latShift == metersToLat(adjustment.north)
        lngShift == metersToLng(adjustment.east, centerOf(currentBounds).lat)
        newLatSpan == (currentBounds.north - currentBounds.south) * adjustment.scaleFactor
        newLngSpan == (currentBounds.east - currentBounds.west) * adjustment.scaleFactor
    IN  Bounds(currentBounds.south + latShift + newLatSpan, currentBounds.south + latShift,
               currentBounds.west + lngShift + newLngSpan, currentBounds.west + lngShift)

applyAdjustment(currentBounds, adjustment) ==
    LET currentCenter == centerOf(currentBounds)
        latShift == metersToLat(adjustment.north)
        lngShift == metersToLng(adjustment.east, currentCenter.lat)
        newLat == currentCenter.lat + latShift
        newLng == currentCenter.lng + lngShift
        newLatSpan == (currentBounds.north - currentBounds.south) * adjustment.scaleFactor
        newLngSpan == (currentBounds.east - currentBounds.west) * adjustment.scaleFactor
    IN  Bounds(newLat + newLatSpan \div 2, newLat - newLatSpan \div 2,
               newLng + newLngSpan \div 2, newLng - newLngSpan \div 2)

(***************************************************************************)
(* POST /api/ai/deep-refine: clamp, apply, shouldContinue                  *)
(***************************************************************************)
maxShiftMeters == 200

\* the adjustment after the clamp to maxShift (sub-units) around originalBounds
clampShift(currentBounds, originalBounds, adjustment, maxShift) ==
    LET originalCenter == centerOf(originalBounds)
        currentCenter == centerOf(currentBounds)
        currentOffsetNorth == latToMeters(currentCenter.lat - originalCenter.lat)
        currentOffsetEast ==
            lngToMeters(currentCenter.lng - originalCenter.lng, currentCenter.lat)
        proposedOffsetNorth == currentOffsetNorth + adjustment.north
        proposedOffsetEast == currentOffsetEast + adjustment.east
        clampNorth == Abs(proposedOffsetNorth) > maxShift
        clampEast == Abs(proposedOffsetEast) > maxShift
    IN  [adjustment |->
            [adjustment EXCEPT
                !.north = IF clampNorth
                          THEN Sign(proposedOffsetNorth) * maxShift - currentOffsetNorth
                          ELSE @,
                !.east = IF clampEast
                         THEN Sign(proposedOffsetEast) * maxShift - currentOffsetEast
                         ELSE @],
         boundsClamped |-> clampNorth \/ clampEast]

\* a faulty test that wants a shift of more than 2 m on both axes, for comparison
shouldContinueBothAxes(adjustment) ==
    /\ adjustment.confidence < 90
    /\ Abs(adjustment.north) > Meters(2)
    /\ Abs(adjustment.east) > Meters(2)

\* confidence < 0.9 and a shift of more than 2 m on an axis
shouldContinue(adjustment) ==
    /\ adjustment.confidence < 90
    /\ \/ Abs(adjustment.north) > Meters(2)
       \/ Abs(adjustment.east) > Meters(2)

\* a parsed answer that has the fields of an adjustment (shiftMeters is an
\* object); reading shiftMeters.north of any other parsed value throws
isAdjustment(a) == "north" \in DOMAIN a

\* the "error" event that the catch block of the stream sends
ErrorEvent ==
    [event |-> "error", adjustment |-> None, newBounds |-> None,
     boundsClamped |-> FALSE, shouldContinue |-> FALSE]

\* the last event of the stream for the parsed answer ai (None when
\* parseJsonResponse returns null); originalBounds is None when the request
\* carries null
deepRefineComplete(currentBounds, originalBounds, ai, maxShift) ==
    IF ai = None
    THEN [event |-> "complete", adjustment |-> None, newBounds |-> None,
          boundsClamped |-> FALSE, shouldContinue |-> FALSE]
    ELSE IF ~isAdjustment(Val(ai)) THEN ErrorEvent
    ELSE LET c == IF originalBounds # None
                  THEN clampShift(currentBounds, Val(originalBounds), Val(ai), maxShift)
                  ELSE [adjustment |-> Val(ai), boundsClamped |-> FALSE]
         IN  [event |-> "complete", adjustment |-> Some(c.adjustment),
              newBounds |-> Some(applyAdjustment(currentBounds, c.adjustment)),
              boundsClamped |-> c.boundsClamped,
              shouldContinue |-> shouldContinue(c.adjustment)]

\* the last event of the stream of POST /api/ai/refine
refineComplete(currentBounds, ai) ==
    IF ai = None
    THEN [event |-> "complete", adjustment |-> None, newBounds |-> None]
    ELSE IF ~isAdjustment(Val(ai))
    THEN [event |-> "error", adjustment |-> None, newBounds |-> None]
    ELSE [event |-> "complete", adjustment |-> ai,
          newBounds |-> Some(applyAdjustment(currentBounds, Val(ai)))]

(***************************************************************************)
(* Inputs: what the collaborators (PDF reader, AI, geocoder) may return    *)
(***************************************************************************)
\* the documents dropped on the page
MaxUploads == 2

\* the user's gestures in all: documents dropped, buttons pressed (Refine, Deep
\* Refine, Reset, Reset View) and corner markers dragged
MaxGestures == 3

Road(name, isPrimary) == [name |-> name, isPrimary |-> isPrimary]

\* ExtractedPlanData, reduced to what processDocument reads: whether address,
\* city and state are non-empty, the roads, the cornerPosition of each
\* intersection, and estimatedSizeMeters in metres (None for null)
Extractions ==
    { [address |-> TRUE, city |-> TRUE, state |-> TRUE,
       roads |-> << Road("A", FALSE), Road("B", FALSE), Road("A", FALSE) >>,
       intersections |-> << "northwest" >>, estimatedSizeMeters |-> Some(5)],
      [address |-> FALSE, city |-> TRUE, state |-> TRUE,
       roads |-> << Road("A", FALSE), Road("B", TRUE) >>,
       intersections |-> << >>, estimatedSizeMeters |-> None],
      [address |-> TRUE, city |-> TRUE, state |-> FALSE,
       roads |-> << Road("A", FALSE) >>,
       intersections |-> << "unknown", "northeast" >>,
       estimatedSizeMeters |-> Some(5000)],
      [address |-> FALSE, city |-> FALSE, state |-> FALSE,
       roads |-> << Road("A", TRUE) >>,
       intersections |-> << >>, estimatedSizeMeters |-> Some(100)],
      [address |-> TRUE, city |-> FALSE, state |-> FALSE,
       roads |-> << >>,
       intersections |-> << >>, estimatedSizeMeters |-> Some(0)],
      [address |-> FALSE, city |-> TRUE, state |-> FALSE,
       roads |-> << >>,
       intersections |-> << >>, estimatedSizeMeters |-> Some(250)] }

\* aspect ratios (width / height) of the rendered first page
AspectRatios == { [w |-> 1, h |-> 1] }

\* points the geocoder may return: Sun City AZ and a site near the equator
GeoPoint(lat, lng) == [lat |-> lat, lng |-> lng]

GeoSites == { GeoPoint(MilliDeg(33623), MilliDeg(-112283)),
              GeoPoint(MilliDeg(4500), MilliDeg(-74000)) }

\* adjustments the refinement AI may return
RefineAdjustments ==
    { Adjustment(Meters(10), Meters(-10), 1, 80),
      Adjustment(0, 0, 0, 50) }

\* adjustments the deep-refinement AI may return
DeepAdjustments ==
    { Adjustment(Meters(45), Meters(-45), 1, 50),
      Adjustment(Meters(1), Meters(-2), 1, 50),
      Adjustment(Meters(150), 0, 1, 95),
      Adjustment(0, 0, -1, 50) }

\* how far a corner marker is dragged past a corner of the overlay
DragStep == Meters(2)

(***************************************************************************)
(* State of PlanOverlayTool                                                *)
(***************************************************************************)
VARIABLES
    pdfDataUrl,            \* document whose data URL is held, or NoDoc
    overlayImageUrl,       \* document whose page image is the overlay, or NoDoc
    sessionId,             \* session of the latest processDocument, or NoDoc
    bounds,                \* bounds of the overlay
    originalBounds,        \* None, or Some(bounds of the last positioning)
    positionedDoc,         \* document whose positioning set originalBounds
    isProcessing,
    isDeepRefining,
    processingSteps,       \* sequence of [id, status]
    geocodedIntersections, \* sequence of [doc, point]
    roadPolylines,         \* set of [doc, roadName]
    pipe,                  \* the processDocument call in progress
    refn,                  \* the requestRefinement call in progress
    deep,                  \* the handleDeepRefine call in progress
    count,                 \* how many times each user action was taken
    poly,                  \* a decodePolyline call
    calc,                  \* a call of a bounds function: its input and result
    ocr,                   \* an ocrPageWithRetry or ocrWithRetry call
    srv,                   \* the server's sessions map and its refine requests
    geo                    \* a geocodeIntersection call

ui == << pdfDataUrl, overlayImageUrl, sessionId, bounds, originalBounds,
         positionedDoc, isProcessing, isDeepRefining, processingSteps,
         geocodedIntersections, roadPolylines >>

\* the state of the library functions and of the server, which the handlers of
\* PlanOverlayTool leave alone
libVars == << poly, calc, ocr, srv, geo >>

vars == << ui, pipe, refn, deep, count, libVars >>

StepIds == << "read", "extract", "geocode", "position", "refine" >>

initialSteps == [i \in DOMAIN StepIds |-> [id |-> StepIds[i], status |-> "pending"]]

updateStep(steps, id, status) ==
    IF steps = << >> THEN << >>
    ELSE [i \in DOMAIN steps |->
            IF steps[i].id = id THEN [steps[i] EXCEPT !.status = status] ELSE steps[i]]

\* the catch block of processDocument: every active step becomes error
markActiveAsError(steps) ==
    IF steps = << >> THEN << >>
    ELSE [i \in DOMAIN steps |->
            IF steps[i].status = "active" THEN [steps[i] EXCEPT !.status = "error"]
            ELSE steps[i]]

StepEvent(id, status) == [id |-> id, status |-> status]

\* a processDocument call: its position (pc), its locals, the updateStep calls
\* it made (log), the requests it sent (calls) and how it ended
IdlePipe ==
    [pc |-> "idle", doc |-> NoDoc, capOverlay |-> NoDoc,
     aspect |-> [w |-> 1, h |-> 1], extracted |-> None, geocodeData |-> None,
     useCornerBased |-> FALSE, cornerPosition |-> "null", boundsData |-> None,
     roadsPending |-> {}, roadsOk |-> {}, sizeMeters |-> None,
     refineResult |-> None, detail |-> "none",
     log |-> << >>, calls |-> << >>, outcome |-> "none", reason |-> "none"]

IdleRefn ==
    [pc |-> "idle", bounds |-> None, sessionId |-> NoDoc, overlay |-> NoDoc,
     report |-> "none"]

IdleDeep ==
    [pc |-> "idle", iteration |-> 0, currentBoundsLocal |-> None,
     originalBounds |-> None, originalDoc |-> NoDoc, overlay |-> NoDoc,
     requests |-> 0,
     exits |-> << >>, stop |-> "no", last |-> "none",
     startedAfterStop |-> FALSE, appliedAfterStop |-> FALSE]

\* no call of a library function is in progress
NoCall == [pc |-> "none"]

\* the page after construction
PageInit ==
    /\ pdfDataUrl = NoDoc
    /\ overlayImageUrl = NoDoc
    /\ sessionId = NoDoc
    /\ bounds = DEFAULT_BOUNDS
    /\ originalBounds = None
    /\ positionedDoc = NoDoc
    /\ isProcessing = FALSE
    /\ isDeepRefining = FALSE
    /\ processingSteps = << >>
    /\ geocodedIntersections = << >>
    /\ roadPolylines = {}
    /\ pipe = IdlePipe
    /\ refn = IdleRefn
    /\ deep = IdleDeep
    /\ count = [uploads |-> 0, gestures |-> 0]

Init ==
    /\ PageInit
    /\ poly = NoCall
    /\ calc = NoCall
    /\ ocr = NoCall
    /\ srv = NoCall
    /\ geo = NoCall

(***************************************************************************)
(* processDocument                                                         *)
(***************************************************************************)
CornerPositions == { "northwest", "northeast", "southwest", "southeast" }

hasValidIntersection(x) ==
    /\ Len(x.intersections) > 0
    /\ x.intersections[1] # "unknown"

\* [address, city, state].filter(Boolean).join(", ") is not empty
fullAddress(x) == x.address \/ x.city \/ x.state

\* Math.max(10, Math.min(500, extracted.estimatedSizeMeters || 100))
clampSize(x) ==
    LET rawSize == IF x.estimatedSizeMeters = None \/ Val(x.estimatedSizeMeters) = 0
                   THEN 100 ELSE Val(x.estimatedSizeMeters)
    IN  Max(10, Min(500, rawSize))

\* [...new Set(extracted.roads?.map((r) => r.name) ?? [])]
allRoadNames(x) == { x.roads[i].name : i \in DOMAIN x.roads }

\* a faulty choice that always takes the center variant, for comparison
boundsEndpointCenter(p) == "bounds/calculate"

\* the endpoint the position step calls
boundsEndpoint(p) ==
    IF p.useCornerBased /\ p.cornerPosition # "null"
    THEN "bounds/from-corner" ELSE "bounds/calculate"

\* the bounds that endpoint returns
boundsResponse(p) ==
    LET x == Val(p.extracted)
        g == Val(p.geocodeData)
        sizeMeters == Meters(Val(p.sizeMeters))
    IN  IF boundsEndpoint(p) = "bounds/from-corner"
        THEN calculateBoundsFromCorner(g, p.cornerPosition, sizeMeters, p.aspect)
        ELSE calculateBounds(g, sizeMeters, p.aspect)

\* catch and finally of processDocument
PipeFail(p, steps, reason) ==
    /\ pipe' = [p EXCEPT !.pc = "idle", !.outcome = "failed", !.reason = reason]
    /\ processingSteps' = markActiveAsError(steps)
    /\ isProcessing' = FALSE

\* the end of the try block, and finally
PipeSettle(p, steps) ==
    /\ pipe' = [p EXCEPT !.pc = "idle", !.outcome = "settled",
                         !.log = Append(@, StepEvent("refine", "complete"))]
    /\ processingSteps' = updateStep(steps, "refine", "complete")
    /\ isProcessing' = FALSE

\* a faulty order (the position step starts before the geocode step is marked
\* complete), for comparison
PipePositionEarly(p, steps) ==
    /\ pipe' = [p EXCEPT !.pc = "bounds",
                         !.log = @ \o << StepEvent("position", "active"),
                                         StepEvent("geocode", "complete") >>,
                         !.sizeMeters = Some(100),
                         !.calls = Append(@, "bounds/calculate")]
    /\ processingSteps' =
           updateStep(updateStep(steps, "position", "active"), "geocode", "complete")
    /\ UNCHANGED isProcessing

\* geocodeData is set: the geocode step completes and the position step starts
PipePosition(p, steps) ==
    /\ pipe' = [p EXCEPT !.pc = "bounds",
                         !.log = @ \o << StepEvent("geocode", "complete"),
                                         StepEvent("position", "active") >>,
                         !.sizeMeters = Some(clampSize(Val(p.extracted))),
                         !.calls = Append(@, boundsEndpoint(p))]
    /\ processingSteps' =
           updateStep(updateStep(steps, "geocode", "complete"), "position", "active")
    /\ UNCHANGED isProcessing

\* a faulty geocode step without the address fallback, for comparison
PipeNoFallback(p, steps) ==
    /\ pipe' = [p EXCEPT !.pc = "idle", !.outcome = "failed",
                         !.reason = "Geocoding failed for: intersection"]
    /\ processingSteps' = markActiveAsError(steps)
    /\ isProcessing' = FALSE

\* "Fall back to address geocoding": the address, else the primary road
PipeAddressFallback(p, steps) ==
    LET x == Val(p.extracted)
    IN  IF fullAddress(x)
        THEN /\ pipe' = [p EXCEPT !.pc = "addr", !.calls = Append(@, "geocode:address")]
             /\ processingSteps' = steps
             /\ UNCHANGED isProcessing
        ELSE IF Len(x.roads) > 0 /\ x.city
        THEN /\ pipe' = [p EXCEPT !.pc = "road", !.calls = Append(@, "geocode:road")]
             /\ processingSteps' = steps
             /\ UNCHANGED isProcessing
        ELSE PipeFail(p, steps, "No address or roads found to geocode")

\* handleFile and processDocument up to its first await
HandleFile ==
    /\ UNCHANGED libVars
    /\ pipe.pc = "idle"
    /\ count.uploads < MaxUploads
    /\ count.uploads + count.gestures < MaxGestures
    /\ LET doc == count.uploads + 1
       IN  /\ isProcessing' = TRUE
           /\ sessionId' = doc
           /\ processingSteps' = updateStep(initialSteps, "read", "active")
           /\ pipe' = [IdlePipe EXCEPT !.pc = "read1", !.doc = doc,
                                       !.capOverlay = overlayImageUrl,
                                       !.log = << StepEvent("read", "active") >>]
           /\ count' = [count EXCEPT !.uploads = doc]
    /\ UNCHANGED << pdfDataUrl, overlayImageUrl, bounds, originalBounds,
                    positionedDoc, isDeepRefining, geocodedIntersections,
                    roadPolylines, refn, deep >>

\* fileToDataUrl resolves
ReadDataUrl ==
    /\ UNCHANGED libVars
    /\ pipe.pc = "read1"
    /\ pdfDataUrl' = pipe.doc
    /\ pipe' = [pipe EXCEPT !.pc = "read2"]
    /\ UNCHANGED << overlayImageUrl, sessionId, bounds, originalBounds,
                    positionedDoc, isProcessing, isDeepRefining, processingSteps,
                    geocodedIntersections, roadPolylines, refn, deep, count >>

\* pdfFirstPageToImage resolves or throws
ReadImage ==
    /\ UNCHANGED libVars
    /\ pipe.pc = "read2"
    /\ \/ \E a \in AspectRatios :
            /\ overlayImageUrl' = pipe.doc
            /\ pipe' = [pipe EXCEPT !.pc = "extract", !.aspect = a,
                                    !.log = @ \o << StepEvent("read", "complete"),
                                                    StepEvent("extract", "active") >>,
                                    !.calls = Append(@, "ai/extract")]
            /\ processingSteps' =
                   updateStep(updateStep(processingSteps, "read", "complete"),
                              "extract", "active")
            /\ UNCHANGED isProcessing
       \/ /\ PipeFail(pipe, processingSteps, "Invalid PDF structure")
          /\ UNCHANGED overlayImageUrl
    /\ UNCHANGED << pdfDataUrl, sessionId, bounds, originalBounds, positionedDoc,
                    isDeepRefining, geocodedIntersections, roadPolylines, refn,
                    deep, count >>

\* the errors thrown in the extract step: streamResponse throws, or the
\* complete event carries no extractedData
ExtractFailures == { "HTTP 500", "Could not extract location data from document" }

\* the response of POST /api/ai/extract
ExtractResponse ==
    /\ UNCHANGED libVars
    /\ pipe.pc = "extract"
    /\ \/ \E reason \in ExtractFailures :
            PipeFail(pipe, processingSteps, reason)
       \/ \E x \in Extractions :
            LET p == [pipe EXCEPT !.extracted = Some(x),
                                  !.log = @ \o << StepEvent("extract", "complete"),
                                                  StepEvent("geocode", "active") >>]
                steps == updateStep(updateStep(processingSteps, "extract", "complete"),
                                    "geocode", "active")
            IN  IF hasValidIntersection(x) /\ x.city
                THEN /\ pipe' = [p EXCEPT !.pc = "isect",
                                          !.calls = Append(@, "geocode/intersection")]
                     /\ processingSteps' = steps
                     /\ UNCHANGED isProcessing
                ELSE PipeAddressFallback(p, steps)
    /\ UNCHANGED << pdfDataUrl, overlayImageUrl, sessionId, bounds, originalBounds,
                    positionedDoc, isDeepRefining, geocodedIntersections,
                    roadPolylines, refn, deep, count >>

\* the response of POST /api/geocode/intersection
IntersectionResponse ==
    /\ UNCHANGED libVars
    /\ pipe.pc = "isect"
    /\ \/ \E g \in GeoSites :
            LET corner == Val(pipe.extracted).intersections[1]
            IN  /\ pipe' = [pipe EXCEPT
                        !.pc = "roads", !.geocodeData = Some(g),
                        !.useCornerBased = TRUE,
                        !.cornerPosition =
                            IF corner \in CornerPositions THEN corner ELSE @,
                        !.roadsPending = allRoadNames(Val(pipe.extracted)),
                        !.calls = Append(@, "roads/geometry")]
                /\ geocodedIntersections' = << [doc |-> pipe.doc, point |-> g] >>
                /\ UNCHANGED << processingSteps, isProcessing >>
       \/ /\ PipeAddressFallback(pipe, processingSteps)
          /\ UNCHANGED geocodedIntersections
    /\ UNCHANGED << pdfDataUrl, overlayImageUrl, sessionId, bounds, originalBounds,
                    positionedDoc, isDeepRefining, roadPolylines, refn, deep, count >>

\* one road geometry fetch settles: an OK response, or a response that is
\* not OK or a rejection, which both yield null
RoadFetchSettled ==
    /\ UNCHANGED libVars
    /\ pipe.pc = "roads"
    /\ \E roadName \in pipe.roadsPending : \E ok \in BOOLEAN :
            pipe' = [pipe EXCEPT !.roadsPending = @ \ { roadName },
                                 !.roadsOk = IF ok THEN @ \cup { roadName } ELSE @]
    /\ UNCHANGED ui
    /\ UNCHANGED << refn, deep, count >>

\* a faulty wait that resolves with the first OK fetch, for comparison
roadsFirstSettled(p) == p.roadsOk # {} \/ p.roadsPending = {}

\* Promise.all(roadGeometryPromises) resolves
roadsAllSettled(p) == p.roadsPending = {}

\* Promise.all of the road geometry fetches resolved: the roads whose fetch
\* was OK are highlighted, and the geocode step completes
RoadsSettled ==
    /\ UNCHANGED libVars
    /\ pipe.pc = "roads"
    /\ roadsAllSettled(pipe)
    /\ roadPolylines' = { [doc |-> pipe.doc, roadName |-> n] : n \in pipe.roadsOk }
    /\ PipePosition(pipe, processingSteps)
    /\ UNCHANGED << pdfDataUrl, overlayImageUrl, sessionId, bounds, originalBounds,
                    positionedDoc, isDeepRefining, geocodedIntersections, refn,
                    deep, count >>

\* the response of POST /api/geocode, for the address or for the primary road
GeocodeResponse ==
    /\ UNCHANGED libVars
    /\ pipe.pc \in { "addr", "road" }
    /\ \/ \E g \in GeoSites :
            PipePosition([pipe EXCEPT !.geocodeData = Some(g)], processingSteps)
       \/ PipeFail(pipe, processingSteps,
                   IF pipe.pc = "addr" THEN "Geocoding failed for: address"
                   ELSE "No address or roads found to geocode")
    /\ UNCHANGED << pdfDataUrl, overlayImageUrl, sessionId, bounds, originalBounds,
                    positionedDoc, isDeepRefining, geocodedIntersections,
                    roadPolylines, refn, deep, count >>

\* the response of POST /api/bounds/from-corner or /api/bounds/calculate
BoundsResponse ==
    /\ UNCHANGED libVars
    /\ pipe.pc = "bounds"
    /\ LET b == boundsResponse(pipe)
       IN  /\ bounds' = b
           /\ originalBounds' = Some(b)
           /\ positionedDoc' = pipe.doc
           /\ pipe' = [pipe EXCEPT !.pc = "shot", !.boundsData = Some(b),
                                   !.log = @ \o << StepEvent("position", "complete"),
                                                   StepEvent("refine", "active") >>]
           /\ processingSteps' =
                  updateStep(updateStep(processingSteps, "position", "complete"),
                             "refine", "active")
    /\ UNCHANGED << pdfDataUrl, overlayImageUrl, sessionId, isProcessing,
                    isDeepRefining, geocodedIntersections, roadPolylines, refn,
                    deep, count >>

\* captureScreenshot of the render processDocument was created in: null without
\* an overlay image in that render, or when an image fails to load
ScreenshotCaptured ==
    /\ UNCHANGED libVars
    /\ pipe.pc = "shot"
    /\ \/ PipeSettle([pipe EXCEPT !.detail = "Skipped"], processingSteps)
       \/ /\ pipe.capOverlay # NoDoc
          /\ pipe' = [pipe EXCEPT !.pc = "refine", !.calls = Append(@, "ai/refine")]
          /\ UNCHANGED << processingSteps, isProcessing >>
    /\ UNCHANGED << pdfDataUrl, overlayImageUrl, sessionId, bounds, originalBounds,
                    positionedDoc, isDeepRefining, geocodedIntersections,
                    roadPolylines, refn, deep, count >>

\* the stream of POST /api/ai/refine ends: an error, or the complete event
RefineResponse ==
    /\ UNCHANGED libVars
    /\ pipe.pc = "refine"
    /\ \/ /\ PipeFail(pipe, processingSteps, "refine error")
          /\ UNCHANGED bounds
       \/ \E ai \in { None } \cup { Some(a) : a \in RefineAdjustments } :
            LET refineResult == refineComplete(Val(pipe.boundsData), ai)
            IN  /\ bounds' = IF refineResult.adjustment # None /\ refineResult.newBounds # None
                             THEN Val(refineResult.newBounds) ELSE bounds
                /\ PipeSettle([pipe EXCEPT !.refineResult = Some(refineResult),
                                           !.detail = "Alignment adjusted"],
                              processingSteps)
    /\ UNCHANGED << pdfDataUrl, overlayImageUrl, sessionId, originalBounds,
                    positionedDoc, isDeepRefining, geocodedIntersections,
                    roadPolylines, refn, deep, count >>

(***************************************************************************)
(* requestRefinement                                                       *)
(***************************************************************************)
\* catch and finally, or the end of the try block and finally
RefnFinish(report) ==
    /\ refn' = [refn EXCEPT !.pc = "idle", !.report = report]
    /\ isProcessing' = FALSE

\* the Refine button: requestRefinement up to its first await
RequestRefinement ==
    /\ UNCHANGED libVars
    /\ refn.pc = "idle"
    /\ count.uploads + count.gestures < MaxGestures
    /\ pdfDataUrl # NoDoc
    /\ ~isProcessing
    /\ sessionId # NoDoc
    /\ isProcessing' = TRUE
    /\ refn' = [IdleRefn EXCEPT !.pc = "shot", !.bounds = Some(bounds),
                                !.sessionId = sessionId, !.overlay = overlayImageUrl]
    /\ count' = [count EXCEPT !.gestures = @ + 1]
    /\ UNCHANGED << pdfDataUrl, overlayImageUrl, sessionId, bounds, originalBounds,
                    positionedDoc, isDeepRefining, processingSteps,
                    geocodedIntersections, roadPolylines, pipe, deep >>

\* captureScreenshot resolves: null without an overlay image
RefineScreenshot ==
    /\ UNCHANGED libVars
    /\ refn.pc = "shot"
    /\ IF refn.overlay = NoDoc
       THEN RefnFinish("Could not capture screenshot")
       ELSE /\ refn' = [refn EXCEPT !.pc = "post"]
            /\ UNCHANGED isProcessing
    /\ UNCHANGED << pdfDataUrl, overlayImageUrl, sessionId, bounds, originalBounds,
                    positionedDoc, isDeepRefining, processingSteps,
                    geocodedIntersections, roadPolylines, pipe, deep, count >>

\* the stream of POST /api/ai/refine ends: an error, or the complete event
ManualRefineResponse ==
    /\ UNCHANGED libVars
    /\ refn.pc = "post"
    /\ \/ /\ RefnFinish("error")
          /\ UNCHANGED bounds
       \/ \E ai \in { None } \cup { Some(a) : a \in RefineAdjustments } :
            LET refineResult == refineComplete(Val(refn.bounds), ai)
            IN  IF refineResult.adjustment # None /\ refineResult.newBounds # None
                THEN /\ bounds' = Val(refineResult.newBounds)
                     /\ RefnFinish("refinement")
                ELSE /\ UNCHANGED bounds
                     /\ RefnFinish("No adjustments needed")
    /\ UNCHANGED << pdfDataUrl, overlayImageUrl, sessionId, originalBounds,
                    positionedDoc, isDeepRefining, processingSteps,
                    geocodedIntersections, roadPolylines, pipe, deep, count >>

(***************************************************************************)
(* handleDeepRefine                                                        *)
(***************************************************************************)
maxIterations == 5

\* the statements after the while loop, and finally
DeepLeaveLoop(d) ==
    /\ deep' = [d EXCEPT !.pc = "idle",
                         !.exits = IF d.iteration >= maxIterations
                                   THEN Append(@, "maxIterations") ELSE @]
    /\ isDeepRefining' = FALSE

\* catch and finally
DeepThrow(d) ==
    /\ deep' = [d EXCEPT !.pc = "idle", !.exits = Append(@, "error"),
                         !.last = "error"]
    /\ isDeepRefining' = FALSE

\* a faulty loop condition (currentIteration <= maxIterations), for comparison
DeepNextIterationOffByOne(d) ==
    IF d.iteration <= maxIterations
    THEN /\ deep' = [d EXCEPT !.pc = "terrain", !.iteration = @ + 1]
         /\ UNCHANGED isDeepRefining
    ELSE /\ deep' = [d EXCEPT !.pc = "idle", !.exits = Append(@, "maxIterations")]
         /\ isDeepRefining' = FALSE

\* the end of the loop body: the loop condition, then the next iteration's
\* statements up to the terrain fetch
DeepNextIteration(d) ==
    IF d.iteration < maxIterations
    THEN /\ deep' = [d EXCEPT !.pc = "terrain", !.iteration = @ + 1,
                                !.startedAfterStop = (d.stop = "requested")]
         /\ UNCHANGED isDeepRefining
    ELSE DeepLeaveLoop(d)

\* the Deep Refine button: handleDeepRefine up to the first terrain fetch
HandleDeepRefine ==
    /\ UNCHANGED libVars
    /\ deep.pc = "idle"
    /\ count.uploads + count.gestures < MaxGestures
    /\ overlayImageUrl # NoDoc
    /\ ~(isProcessing \/ isDeepRefining)
    /\ isDeepRefining' = TRUE
    /\ deep' = [IdleDeep EXCEPT !.pc = "terrain", !.iteration = 1,
                                !.currentBoundsLocal = Some(bounds),
                                !.originalBounds = originalBounds,
                                !.originalDoc = positionedDoc,
                                !.overlay = overlayImageUrl]
    /\ count' = [count EXCEPT !.gestures = @ + 1]
    /\ UNCHANGED << pdfDataUrl, overlayImageUrl, sessionId, bounds, originalBounds,
                    positionedDoc, isProcessing, processingSteps,
                    geocodedIntersections, roadPolylines, pipe, refn >>

\* the terrain image is fetched and POST /api/ai/deep-refine is sent, or the
\* fetch rejects
TerrainFetched ==
    /\ UNCHANGED libVars
    /\ deep.pc = "terrain"
    /\ \/ /\ deep' = [deep EXCEPT !.pc = "post", !.requests = @ + 1]
          /\ UNCHANGED isDeepRefining
       \/ DeepThrow(deep)
    /\ UNCHANGED << pdfDataUrl, overlayImageUrl, sessionId, bounds, originalBounds,
                    positionedDoc, isProcessing, processingSteps,
                    geocodedIntersections, roadPolylines, pipe, refn, count >>

\* the response of POST /api/ai/deep-refine: an HTTP error or an error event,
\* or the stream ends with or without a complete event
DeepRefineResponse ==
    /\ UNCHANGED libVars
    /\ deep.pc = "post"
    /\ \/ /\ DeepThrow(deep)
          /\ UNCHANGED bounds
       \/ \E ai \in { None } \cup { Some(a) : a \in DeepAdjustments } :
            LET result == deepRefineComplete(Val(deep.currentBoundsLocal),
                                             deep.originalBounds, ai,
                                             Meters(maxShiftMeters))
            IN  IF result.adjustment # None
                THEN LET d == [deep EXCEPT
                                 !.currentBoundsLocal = result.newBounds,
                                 !.last = "applied",
                                 !.appliedAfterStop = (deep.stop = "requested"),
                                 !.exits = IF result.shouldContinue THEN @
                                           ELSE Append(@, "converged")]
                     IN  /\ bounds' = Val(result.newBounds)
                         /\ IF result.shouldContinue
                            THEN DeepNextIteration(d)
                            ELSE DeepLeaveLoop(d)
                ELSE /\ UNCHANGED bounds
                     /\ DeepLeaveLoop([deep EXCEPT !.last = "noAdjustment",
                                          !.exits = Append(@, "noAdjustment")])
    /\ UNCHANGED << pdfDataUrl, overlayImageUrl, sessionId, originalBounds,
                    positionedDoc, isProcessing, processingSteps,
                    geocodedIntersections, roadPolylines, pipe, refn, count >>

(***************************************************************************)
(* handleReset, the corner markers, the Reset View button                  *)
(***************************************************************************)
\* the Reset button
HandleReset ==
    /\ UNCHANGED libVars
    /\ pdfDataUrl # NoDoc
    /\ count.uploads + count.gestures < MaxGestures
    /\ pdfDataUrl' = NoDoc
    /\ overlayImageUrl' = NoDoc
    /\ sessionId' = NoDoc
    /\ bounds' = DEFAULT_BOUNDS
    /\ processingSteps' = << >>
    /\ geocodedIntersections' = << >>
    /\ roadPolylines' = {}
    /\ originalBounds' = None
    /\ isDeepRefining' = FALSE
    /\ positionedDoc' = NoDoc
    /\ deep' = IF deep.pc # "idle" THEN [deep EXCEPT !.stop = "requested"] ELSE deep
    /\ count' = [count EXCEPT !.gestures = @ + 1]
    /\ UNCHANGED << isProcessing, pipe, refn >>

DragTypes == { "nw", "ne", "sw", "se" }

\* newBounds of CornerMarkers.handleDrag
dragBounds(b, type, lat, lng) ==
    [north |-> IF type \in { "nw", "ne" } THEN lat ELSE b.north,
     south |-> IF type \in { "sw", "se" } THEN lat ELSE b.south,
     east  |-> IF type \in { "ne", "se" } THEN lng ELSE b.east,
     west  |-> IF type \in { "nw", "sw" } THEN lng ELSE b.west]

\* a corner marker is dragged to a point one step outside the overlay
HandleDrag ==
    /\ UNCHANGED libVars
    /\ overlayImageUrl # NoDoc
    /\ count.uploads + count.gestures < MaxGestures
    /\ \E type \in DragTypes :
       \E lat \in { bounds.north + DragStep, bounds.south - DragStep } :
       \E lng \in { bounds.east + DragStep, bounds.west - DragStep } :
            LET newBounds == dragBounds(bounds, type, lat, lng)
            IN  bounds' = IF newBounds.north > newBounds.south
                              /\ newBounds.east > newBounds.west
                           THEN newBounds ELSE bounds
    /\ count' = [count EXCEPT !.gestures = @ + 1]
    /\ UNCHANGED << pdfDataUrl, overlayImageUrl, sessionId, originalBounds,
                    positionedDoc, isProcessing, isDeepRefining, processingSteps,
                    geocodedIntersections, roadPolylines, pipe, refn, deep >>

\* the Reset View button, shown while a document is held; pressing it when
\* the bounds are DEFAULT_BOUNDS already changes nothing
ResetView ==
    /\ UNCHANGED libVars
    /\ pdfDataUrl # NoDoc
    /\ count.uploads + count.gestures < MaxGestures
    /\ bounds # DEFAULT_BOUNDS
    /\ bounds' = DEFAULT_BOUNDS
    /\ count' = [count EXCEPT !.gestures = @ + 1]
    /\ UNCHANGED << pdfDataUrl, overlayImageUrl, sessionId, originalBounds,
                    positionedDoc, isProcessing, isDeepRefining, processingSteps,
                    geocodedIntersections, roadPolylines, pipe, refn, deep >>

Next ==
    \/ HandleFile
    \/ ReadDataUrl
    \/ ReadImage
    \/ ExtractResponse
    \/ IntersectionResponse
    \/ RoadFetchSettled
    \/ RoadsSettled
    \/ GeocodeResponse
    \/ BoundsResponse
    \/ ScreenshotCaptured
    \/ RefineResponse
    \/ RequestRefinement
    \/ RefineScreenshot
    \/ ManualRefineResponse
    \/ HandleDeepRefine
    \/ TerrainFetched
    \/ DeepRefineResponse
    \/ HandleReset
    \/ HandleDrag
    \/ ResetView

Spec == Init /\ [][Next]_vars

(***************************************************************************)
(* decodePolyline                                                          *)
(*                                                                         *)
(* encoded is the sequence of the string's char codes and idx is the       *)
(* 0-based cursor.  lat and lng are the accumulated integers; a point is   *)
(* kept in units of 1/PolyPrecision degree (the code divides by 1e5).      *)
(* Within MaxPolyLen characters shift stays below 30, so the 32-bit        *)
(* result |= chunk << shift equals result + chunk * 2^shift.               *)
(***************************************************************************)
MaxPolyLen == 4

PolyPrecision == 100000

\* '?' (chunk 0, last), '@' (chunk 1, last), '_' (chunk 0, continues),
\* '~' (chunk 31, continues), ' ' (below '?': a negative byte)
PolyCodes == { 63, 64, 95, 126, 32 }

\* "_p~iF~ps|U_ulLnnqC_mqNvxq`@"
GoogleExample ==
    << 95, 112, 126, 105, 70, 126, 112, 115, 124, 85, 95, 117, 108, 76,
       110, 110, 113, 67, 95, 109, 113, 78, 118, 120, 113, 96, 64 >>

PolyInputs ==
    UNION { [1..n -> PolyCodes] : n \in 0..MaxPolyLen } \cup { GoogleExample }

\* encoded.charCodeAt(idx): NaN (None) outside the string
charCodeAt(encoded, idx) ==
    IF idx < Len(encoded) THEN Some(encoded[idx + 1]) ELSE None

\* byte & 0x1f, where byte = charCode - 63; NaN converts to 0
chunkOf(c) == IF c = None THEN 0 ELSE (Val(c) - 63) % 32

\* byte >= 0x20; false for NaN
continues(c) == c # None /\ Val(c) - 63 >= 32

\* a faulty cursor that stays put on a read outside the string, for comparison
cursorStuckAtEnd(encoded, idx) == IF idx < Len(encoded) THEN idx + 1 ELSE idx

\* idx += 1
cursorAfter(encoded, idx) == idx + 1

\* a zig-zag decoding that drops the sign, for comparison
unzigzagUnsigned(result) == result \div 2

\* (result & 1) !== 0 ? ~(result >> 1) : result >> 1
unzigzag(result) ==
    IF result % 2 # 0 THEN -(result \div 2) - 1 ELSE result \div 2

\* a faulty loop test that admits idx = length, for comparison
polyMoreInclusive(encoded, idx) == idx <= Len(encoded)

\* idx < encoded.length
polyMore(encoded, idx) == idx < Len(encoded)

PolyCall(encoded) ==
    [pc |-> "while", encoded |-> encoded, idx |-> 0, lat |-> 0, lng |-> 0,
     shift |-> 0, result |-> 0, points |-> << >>, indexPoints |-> None]

\* bitwise and of two non-negative integers, for comparison
RECURSIVE BitAnd(_, _)
BitAnd(a, b) ==
    IF a = 0 \/ b = 0 THEN 0
    ELSE (IF a % 2 = 1 /\ b % 2 = 1 THEN 1 ELSE 0) + 2 * BitAnd(a \div 2, b \div 2)

\* a | b for two non-negative integers below 2^31
RECURSIVE BitOr(_, _)
BitOr(a, b) ==
    IF a = 0 THEN b
    ELSE IF b = 0 THEN a
    ELSE (IF a % 2 = 1 \/ b % 2 = 1 THEN 1 ELSE 0) + 2 * BitOr(a \div 2, b \div 2)

\* the do-while loop of the copy in src/index.ts, from cursor idx:
\* result = result | ((byte & 0x1f) << shift), until byte < 0x20
RECURSIVE indexVarint(_, _, _, _)
indexVarint(encoded, idx, shift, result) ==
    LET byte == IF idx < Len(encoded) THEN Some(encoded[idx + 1] - 63) ELSE None
        low5 == IF byte = None THEN 0 ELSE Val(byte) % 32
        r == BitOr(result, low5 * 2 ^ shift)
    IN  IF byte # None /\ Val(byte) >= 32
        THEN indexVarint(encoded, idx + 1, shift + 5, r)
        ELSE [idx |-> idx + 1, result |-> r]

\* the while loop of the copy in src/index.ts
RECURSIVE indexWhile(_, _, _, _, _)
indexWhile(encoded, idx, lat, lng, points) ==
    IF ~(idx < Len(encoded)) THEN points
    ELSE LET a == indexVarint(encoded, idx, 0, 0)
             dlat == IF a.result % 2 # 0 THEN -(a.result \div 2) - 1
                     ELSE a.result \div 2
             b == indexVarint(encoded, a.idx, 0, 0)
             dlng == IF b.result % 2 # 0 THEN -(b.result \div 2) - 1
                     ELSE b.result \div 2
         IN  indexWhile(encoded, b.idx, lat + dlat, lng + dlng,
                        Append(points, [lat |-> lat + dlat, lng |-> lng + dlng]))

\* decodePolyline of src/index.ts
decodePolyline(encoded) == indexWhile(encoded, 0, 0, 0, << >>)

PolyInit ==
    /\ PageInit
    /\ calc = NoCall
    /\ ocr = NoCall
    /\ srv = NoCall
    /\ geo = NoCall
    /\ \E encoded \in PolyInputs : poly = PolyCall(encoded)

\* the test of the while loop: start a point, or return points
PolyWhile ==
    /\ poly.pc = "while"
    /\ poly' = IF polyMore(poly.encoded, poly.idx)
               THEN [poly EXCEPT !.pc = "lat", !.shift = 0, !.result = 0]
               ELSE [poly EXCEPT !.pc = "done"]
    /\ UNCHANGED << ui, pipe, refn, deep, count, calc, ocr, srv, geo >>

\* one pass of a do-while body: read a char, advance the cursor, add its chunk
PolyByte(p) ==
    LET c == charCodeAt(p.encoded, p.idx)
    IN  [p EXCEPT !.idx = cursorAfter(p.encoded, p.idx),
                  !.result = @ + chunkOf(c) * 2 ^ p.shift,
                  !.shift = @ + 5]

\* one pass of the latitude loop; when the byte does not continue, the delta
\* is added to lat and the longitude loop starts
PolyLatByte ==
    /\ poly.pc = "lat"
    /\ LET p == PolyByte(poly)
       IN  poly' = IF continues(charCodeAt(poly.encoded, poly.idx))
                   THEN p
                   ELSE [p EXCEPT !.lat = @ + unzigzag(p.result),
                                  !.pc = "lng", !.shift = 0, !.result = 0]
    /\ UNCHANGED << ui, pipe, refn, deep, count, calc, ocr, srv, geo >>

\* one pass of the longitude loop; when the byte does not continue, the delta
\* is added to lng and the point is pushed
PolyLngByte ==
    /\ poly.pc = "lng"
    /\ LET p == PolyByte(poly)
       IN  poly' = IF continues(charCodeAt(poly.encoded, poly.idx))
                   THEN p
                   ELSE LET q == [p EXCEPT !.lng = @ + unzigzag(p.result)]
                        IN  [q EXCEPT !.pc = "while",
                                      !.points = Append(@, [lat |-> q.lat,
                                                            lng |-> q.lng])]
    /\ UNCHANGED << ui, pipe, refn, deep, count, calc, ocr, srv, geo >>

\* the same string is decoded by the copy in src/index.ts
PolyIndexDecode ==
    /\ poly.pc # "none"
    /\ poly.indexPoints = None
    /\ poly' = [poly EXCEPT !.indexPoints = Some(decodePolyline(poly.encoded))]
    /\ UNCHANGED << ui, pipe, refn, deep, count, calc, ocr, srv, geo >>

PolyNext ==
    \/ PolyWhile
    \/ PolyLatByte
    \/ PolyLngByte

PolylineSpec == PolyInit /\ [][PolyNext]_vars

\* the function runs to its return without interruption
PolylineLive == PolylineSpec /\ WF_vars(PolyNext)

\* a call of the copy in server/lib/roads.ts, beside which the copy in
\* src/index.ts decodes the same string
DecodersNext ==
    \/ PolyWhile
    \/ PolyLatByte
    \/ PolyLngByte
    \/ PolyIndexDecode

DecodersSpec == PolyInit /\ [][DecodersNext]_vars

\* shift stays below the width at which << would wrap
PolyArithmeticExact ==
    poly.pc # "none" => (poly.shift <= 30 /\ poly.result < 2 ^ 30)

(***************************************************************************)
(* Calls of calculateBoundsFromCorner and of applyAdjustment               *)
(*                                                                         *)
(* calculateBoundsFromCorner is called in the exact units above.           *)
(* applyAdjustment with zero shifts is called in binary floating point:    *)
(* round to nearest, ties to even, with FloatBits significant bits where a *)
(* JavaScript number has 53.  A coordinate is an even integer, so that     *)
(* each division by 2 of the code is exact, as it is for numbers.          *)
(***************************************************************************)
FloatBits == 3

\* coordinates of the bounds passed to applyAdjustment run up to 2 * MaxCoord
MaxCoord == 10

\* the exponent of the spacing of floating-point numbers at x
FlExp(x) ==
    CHOOSE e \in 0..20 :
        /\ Abs(x) < 2 ^ (FloatBits + e)
        /\ e = 0 \/ Abs(x) >= 2 ^ (FloatBits + e - 1)

\* the spacing of floating-point numbers at x (a unit in the last place)
ulp(x) == 2 ^ FlExp(x)

\* the floating-point number nearest to x, ties to the even significand
Fl(x) ==
    LET q == ulp(x)
        lo == (Abs(x) \div q) * q
        r == Abs(x) - lo
        m == IF 2 * r < q THEN lo
             ELSE IF 2 * r > q THEN lo + q
             ELSE IF (lo \div q) % 2 = 0 THEN lo ELSE lo + q
    IN  Sign(x) * m

\* the coordinates a bounds may hold
FloatCoords == { 2 * k : k \in { j \in (-MaxCoord)..MaxCoord : Fl(j) = j } }

\* valid bounds: north > south and east > west
FloatBounds ==
    { b \in [north : FloatCoords, south : FloatCoords,
             east : FloatCoords, west : FloatCoords] :
        b.north > b.south /\ b.east > b.west }

\* a faulty half span that is the whole span, for comparison
wholeSpan(span) == span

\* newLatSpan / 2
halfSpan(span) == span \div 2

\* applyAdjustment for shiftMeters north 0 and east 0, each operation rounded:
\* latShift and lngShift are 0 / x = 0
applyAdjustmentFl(currentBounds, scaleFactor) ==
    LET currentCenter ==
            [lat |-> Fl(currentBounds.north + currentBounds.south) \div 2,
             lng |-> Fl(currentBounds.east + currentBounds.west) \div 2]
        newLat == Fl(currentCenter.lat + 0)
        newLng == Fl(currentCenter.lng + 0)
        newLatSpan == Fl(Fl(currentBounds.north - currentBounds.south) * scaleFactor)
        newLngSpan == Fl(Fl(currentBounds.east - currentBounds.west) * scaleFactor)
    IN  Bounds(Fl(newLat + halfSpan(newLatSpan)), Fl(newLat - halfSpan(newLatSpan)),
               Fl(newLng + halfSpan(newLngSpan)), Fl(newLng - halfSpan(newLngSpan)))

\* plan sizes (metres) and aspect ratios passed to calculateBoundsFromCorner
CornerSizes == { Meters(10), Meters(100), Meters(500) }

CornerAspects == { [w |-> 1, h |-> 1], [w |-> 2, h |-> 1], [w |-> 1, h |-> 2] }

\* the four corner positions and two values outside the type
CornerValues == CornerPositions \cup { "center", "unknown" }

CornerCalls ==
    { [pc |-> "called", fn |-> "calculateBoundsFromCorner", corner |-> c,
       cornerPosition |-> q, sizeMeters |-> s, aspect |-> a, result |-> None] :
        c \in GeoSites, q \in CornerValues, s \in CornerSizes, a \in CornerAspects }

AdjustCalls ==
    { [pc |-> "called", fn |-> "applyAdjustment", currentBounds |-> b,
       scaleFactor |-> 1, result |-> None] : b \in FloatBounds }

\* distances (metres) of the current centre from the original centre, on
\* each axis, when an iteration is requested
DeepOffsets == { 0, 100, 199, 200 }

\* adjustments the deep-refinement AI may propose
DeepProposals ==
    { Adjustment(Meters(45), Meters(-45), 1, 50),
      Adjustment(Meters(1), Meters(-2), 1, 50),
      Adjustment(Meters(150), 0, 1, 50),
      Adjustment(0, Meters(150), 1, 50),
      Adjustment(Meters(3), 0, 1, 90),
      Adjustment(Meters(-150), Meters(-150), 1, 89) }

\* what parseJsonResponse returns for an answer that is JSON without the
\* fields of an adjustment, such as {"reasoning": "..."}
MalformedAnswer == [reasoning |-> "text"]

\* the body of a POST /api/ai/deep-refine request and the AI's parsed answer
DeepCalls ==
    { [pc |-> "called", fn |-> "deep-refine",
       currentBounds |-> applyAdjustment(calculateBounds(g, Meters(100), [w |-> 1, h |-> 1]),
                                         Adjustment(Meters(n), Meters(e), 1, 0)),
       originalBounds |-> IF sent
                          THEN Some(calculateBounds(g, Meters(100), [w |-> 1, h |-> 1]))
                          ELSE None,
       ai |-> ai, result |-> None] :
        g \in GeoSites, n \in DeepOffsets, e \in DeepOffsets, sent \in BOOLEAN,
        ai \in { None, Some(MalformedAnswer) } \cup { Some(a) : a \in DeepProposals } }

\* calls of applyAdjustment in the exact units: shifts in metres on each axis
\* and scale factors, among them 0 and a negative one
ShiftCalls ==
    { [pc |-> "called", fn |-> "applyAdjustment (exact units)",
       currentBounds |-> calculateBounds(g, Meters(s), a),
       adjustment |-> Adjustment(Meters(n), Meters(e), k, 50), result |-> None] :
        g \in GeoSites, s \in { 10, 100, 500 }, a \in CornerAspects,
        n \in { -30, 0, 10 }, e \in { -10, 0, 45 }, k \in { -1, 0, 1, 2, 3 } }

\* the body of a POST /api/ai/refine request and the AI's parsed answer
RefineCalls ==
    { [pc |-> "called", fn |-> "refine",
       currentBounds |-> calculateBounds(g, Meters(s), [w |-> 1, h |-> 1]),
       ai |-> ai, result |-> None] :
        g \in GeoSites, s \in { 10, 100, 500 },
        ai \in { None, Some(MalformedAnswer) } \cup { Some(a) : a \in RefineAdjustments } }

CalcInit ==
    /\ PageInit
    /\ poly = NoCall
    /\ ocr = NoCall
    /\ srv = NoCall
    /\ geo = NoCall
    /\ calc \in CornerCalls \cup AdjustCalls \cup DeepCalls \cup RefineCalls
                \cup ShiftCalls

CalcFromCorner ==
    /\ calc.pc = "called"
    /\ calc.fn = "calculateBoundsFromCorner"
    /\ calc' = [calc EXCEPT !.pc = "returned",
                  !.result = Some(calculateBoundsFromCorner(calc.corner,
                                 calc.cornerPosition, calc.sizeMeters, calc.aspect))]
    /\ UNCHANGED << ui, pipe, refn, deep, count, poly, ocr, srv, geo >>

CalcApplyAdjustment ==
    /\ calc.pc = "called"
    /\ calc.fn = "applyAdjustment"
    /\ calc' = [calc EXCEPT !.pc = "returned",
                  !.result = Some(applyAdjustmentFl(calc.currentBounds,
                                                    calc.scaleFactor))]
    /\ UNCHANGED << ui, pipe, refn, deep, count, poly, ocr, srv, geo >>

\* POST /api/ai/deep-refine from the parsed answer to the complete event
CalcDeepRefine ==
    /\ calc.pc = "called"
    /\ calc.fn = "deep-refine"
    /\ calc' = [calc EXCEPT !.pc = "returned",
                  !.result = Some(deepRefineComplete(calc.currentBounds,
                                 calc.originalBounds, calc.ai, Meters(maxShiftMeters)))]
    /\ UNCHANGED << ui, pipe, refn, deep, count, poly, ocr, srv, geo >>

\* POST /api/ai/refine from the parsed answer to the last event
CalcRefine ==
    /\ calc.pc = "called"
    /\ calc.fn = "refine"
    /\ calc' = [calc EXCEPT !.pc = "returned",
                  !.result = Some(refineComplete(calc.currentBounds, calc.ai))]
    /\ UNCHANGED << ui, pipe, refn, deep, count, poly, ocr, srv, geo >>

CalcShift ==
    /\ calc.pc = "called"
    /\ calc.fn = "applyAdjustment (exact units)"
    /\ calc' = [calc EXCEPT !.pc = "returned",
                  !.result = Some(applyAdjustment(calc.currentBounds, calc.adjustment))]
    /\ UNCHANGED << ui, pipe, refn, deep, count, poly, ocr, srv, geo >>

CalcNext ==
    \/ CalcFromCorner
    \/ CalcApplyAdjustment
    \/ CalcDeepRefine
    \/ CalcRefine
    \/ CalcShift

GeometrySpec == CalcInit /\ [][CalcNext]_vars

\* the corner of bounds b that cornerPosition names
cornerOf(b, cornerPosition) ==
    [lat |-> IF cornerPosition \in { "northwest", "northeast" }
             THEN b.north ELSE b.south,
     lng |-> IF cornerPosition \in { "northwest", "southwest" }
             THEN b.west ELSE b.east]

oppositeCorner(cornerPosition) ==
    CASE cornerPosition = "northwest" -> "southeast"
      [] cornerPosition = "northeast" -> "southwest"
      [] cornerPosition = "southwest" -> "northeast"
      [] cornerPosition = "southeast" -> "northwest"

(***************************************************************************)
(* ocrPageWithRetry and ocrWithRetry                                       *)
(*                                                                         *)
(* An error message is the sequence of its words; includes(message, m) is  *)
(* message.includes(m) for a marker m that is one of these words.          *)
(***************************************************************************)
\* the largest maxRetries argument passed
MaxRetriesArg == 4

\* maxRetries = 3
DefaultMaxRetries == 3

RateLimitMarkers == { "rate limit", "quota", "429", "RESOURCE_EXHAUSTED" }

\* messages of the errors an OCR attempt may throw
OcrErrorMessages ==
    { << "rate limit", "exceeded" >>, << "quota", "exhausted" >>,
      << "HTTP", "429" >>, << "RESOURCE_EXHAUSTED" >>,
      << "Rate Limit", "exceeded" >>, << "HTTP", "500" >>,
      << "No", "response", "from", "OCR" >> }

includes(message, marker) == \E i \in DOMAIN message : message[i] = marker

isRateLimitError(message) == \E marker \in RateLimitMarkers : includes(message, marker)

\* a faulty test that also waits after the last attempt, for comparison
mayRetryAlways(attempt, maxRetries) == attempt < maxRetries

\* attempt < maxRetries - 1
mayRetry(attempt, maxRetries) == attempt < maxRetries - 1

\* 2 ** attempt * 1000
delayMs(attempt) == 2 ^ attempt * 1000

\* a call; maxRetries is None when the argument is left out
OcrCall(fn, maxRetries) ==
    [pc |-> "for", fn |-> fn, arg |-> maxRetries,
     maxRetries |-> IF maxRetries = None THEN DefaultMaxRetries ELSE Val(maxRetries),
     attempt |-> 0, attempts |-> 0, delays |-> << >>, last |-> None,
     outcome |-> "none", result |-> None, thrown |-> None]

OcrInit ==
    /\ PageInit
    /\ poly = NoCall
    /\ calc = NoCall
    /\ srv = NoCall
    /\ geo = NoCall
    /\ \E fn \in { "ocrPageWithRetry", "ocrWithRetry" } :
       \E maxRetries \in { None } \cup { Some(n) : n \in 0..MaxRetriesArg } :
            ocr = OcrCall(fn, maxRetries)

\* the test of the for loop: start an attempt, or leave the loop and throw
OcrLoopTest ==
    /\ ocr.pc = "for"
    /\ ocr' = IF ocr.attempt < ocr.maxRetries
              THEN [ocr EXCEPT !.pc = "try", !.attempts = @ + 1]
              ELSE [ocr EXCEPT !.pc = "done", !.outcome = "thrown",
                               !.thrown = Some(<< "OCR failed after maxRetries retries" >>)]
    /\ UNCHANGED << ui, pipe, refn, deep, count, poly, calc, srv, geo >>

\* ocrPageFull / legacyOcrPage resolves: its result is returned
OcrAttemptReturns ==
    /\ ocr.pc = "try"
    /\ ocr' = [ocr EXCEPT !.pc = "done", !.outcome = "returned",
                          !.result = Some(ocr.attempt)]
    /\ UNCHANGED << ui, pipe, refn, deep, count, poly, calc, srv, geo >>

\* ocrPageFull / legacyOcrPage rejects: wait before another attempt, or rethrow
OcrAttemptThrows ==
    /\ ocr.pc = "try"
    /\ \E message \in OcrErrorMessages :
            ocr' = IF isRateLimitError(message) /\ mayRetry(ocr.attempt, ocr.maxRetries)
                   THEN [ocr EXCEPT !.pc = "sleep", !.last = Some(message),
                                    !.delays = Append(@, delayMs(ocr.attempt))]
                   ELSE [ocr EXCEPT !.pc = "done", !.last = Some(message),
                                    !.outcome = "thrown", !.thrown = Some(message)]
    /\ UNCHANGED << ui, pipe, refn, deep, count, poly, calc, srv, geo >>

\* Bun.sleep(delayMs) resolves; attempt++
OcrSleepEnds ==
    /\ ocr.pc = "sleep"
    /\ ocr' = [ocr EXCEPT !.pc = "for", !.attempt = @ + 1]
    /\ UNCHANGED << ui, pipe, refn, deep, count, poly, calc, srv, geo >>

OcrNext ==
    \/ OcrLoopTest
    \/ OcrAttemptReturns
    \/ OcrAttemptThrows
    \/ OcrSleepEnds

OcrSpec == OcrInit /\ [][OcrNext]_vars

(***************************************************************************)
(* The server's sessions map: POST /api/ai/refine and                      *)
(* DELETE /api/ai/session/:sessionId                                       *)
(*                                                                         *)
(* heap holds the history arrays by identity; sessions maps a key to the   *)
(* array stored under it, or to NoArray.  appended[k] lists the entries    *)
(* that completed requests pushed for key k since the last DELETE of k.    *)
(***************************************************************************)
\* the POST /api/ai/refine requests received
MaxRequests == 3

SessionIds == { "s1", "s2" }

SessionKeys == SessionIds \cup { "default" }

\* sessionId || "default"
keyOf(id) == IF id = None THEN "default" ELSE Val(id)

NoArray == 0

SrvInit ==
    /\ PageInit
    /\ poly = NoCall
    /\ calc = NoCall
    /\ ocr = NoCall
    /\ geo = NoCall
    /\ srv = [pc |-> "listening",
              heap |-> [a \in 1..MaxRequests |-> << >>],
              allocated |-> 0,
              sessions |-> [k \in SessionKeys |-> NoArray],
              reqs |-> [r \in 1..MaxRequests |->
                            [pc |-> "none", key |-> "default", history |-> NoArray]],
              received |-> 0,
              appended |-> [k \in SessionKeys |-> << >>]]

\* the history stored for key k
historyOf(k) ==
    IF srv.sessions[k] = NoArray THEN << >> ELSE srv.heap[srv.sessions[k]]

\* POST /api/ai/refine is received: history = sessions.get(key) ?? []
RefinePost ==
    /\ srv.pc = "listening"
    /\ srv.received < MaxRequests
    /\ \E id \in { None } \cup { Some(s) : s \in SessionIds } :
        LET r == srv.received + 1
            k == keyOf(id)
            fresh == srv.sessions[k] = NoArray
            a == IF fresh THEN srv.allocated + 1 ELSE srv.sessions[k]
        IN  srv' = [srv EXCEPT !.received = r,
                               !.allocated = IF fresh THEN a ELSE @,
                               !.reqs[r] = [pc |-> "stream", key |-> k, history |-> a]]
    /\ UNCHANGED << ui, pipe, refn, deep, count, poly, calc, ocr, geo >>

\* the AI stream of a request ends with text: history.push(user),
\* history.push(model), sessions.set(key, history)
RefineStreamEnds ==
    /\ \E r \in 1..MaxRequests :
        /\ srv.reqs[r].pc = "stream"
        /\ LET k == srv.reqs[r].key
               a == srv.reqs[r].history
               entries == << [role |-> "user", req |-> r], [role |-> "model", req |-> r] >>
           IN  srv' = [srv EXCEPT !.heap[a] = @ \o entries,
                                  !.sessions[k] = a,
                                  !.reqs[r].pc = "complete",
                                  !.appended[k] = @ \o entries]
    /\ UNCHANGED << ui, pipe, refn, deep, count, poly, calc, ocr, geo >>

\* the AI stream of a request throws before any text: the error event
RefineStreamFails ==
    /\ \E r \in 1..MaxRequests :
        /\ srv.reqs[r].pc = "stream"
        /\ srv' = [srv EXCEPT !.reqs[r].pc = "error"]
    /\ UNCHANGED << ui, pipe, refn, deep, count, poly, calc, ocr, geo >>

\* DELETE /api/ai/session/:sessionId: sessions.delete(sessionId)
SessionDelete ==
    /\ srv.pc = "listening"
    /\ \E k \in SessionKeys :
        /\ srv.sessions[k] # NoArray
        /\ srv' = [srv EXCEPT !.sessions[k] = NoArray, !.appended[k] = << >>]
    /\ UNCHANGED << ui, pipe, refn, deep, count, poly, calc, ocr, geo >>

SrvNext ==
    \/ RefinePost
    \/ RefineStreamEnds
    \/ RefineStreamFails
    \/ SessionDelete

SessionSpec == SrvInit /\ [][SrvNext]_vars

(***************************************************************************)
(* geocodeIntersection                                                     *)
(***************************************************************************)
\* `${road1} & ${road2}, ${city}, ${state}`
intersectionQuery(road1, road2, city, state) ==
    << road1, " & ", road2, ", ", city, ", ", state >>

\* `${road1} and ${road2}, ${city}, ${state}`
fallbackQuery(road1, road2, city, state) ==
    << road1, " and ", road2, ", ", city, ", ", state >>

\* a faulty test that runs the fallback whatever the first query returned, for
\* comparison
fallbackAlways(result) == TRUE

\* if (result) { return result; }
fallbackNeeded(result) == result = None

\* a call of geocodeIntersection.  impl names the copy of the function:
\* geocodeAddress of src/index.ts catches a failed fetch and returns null, the
\* one of server/lib/geocoding.ts lets it propagate
GeoInit ==
    /\ PageInit
    /\ poly = NoCall
    /\ calc = NoCall
    /\ ocr = NoCall
    /\ srv = NoCall
    /\ \E impl \in { "index.ts", "geocoding.ts" }, hasKey \in BOOLEAN,
          road1 \in { "Main St", "Oak Ave", "Elm Rd" },
          road2 \in { "Main St", "Oak Ave", "Elm Rd" },
          city \in { "Phoenix", "Mesa" }, state \in { "AZ" } :
        geo = [pc |-> "called", impl |-> impl, hasKey |-> hasKey,
               road1 |-> road1, road2 |-> road2, city |-> city, state |-> state,
               queries |-> << >>, answers |-> << >>, fetchFailed |-> FALSE,
               result |-> None]

\* geocodeAddress(query) has returned answer to geocodeIntersection, which is
\* awaiting it
geoAnswered(g, answer) ==
    LET h == [g EXCEPT !.answers = Append(g.answers, answer)]
    IN  IF Len(g.queries) = 1 /\ fallbackNeeded(answer)
        THEN [h EXCEPT !.queries = Append(g.queries,
                  fallbackQuery(g.road1, g.road2, g.city, g.state))]
        ELSE [h EXCEPT !.pc = "returned", !.result = answer]

\* const result = await geocodeAddress(query)
GeoFirstQuery ==
    /\ geo.pc = "called"
    /\ geo' = [geo EXCEPT !.pc = "awaiting",
                 !.queries = << intersectionQuery(geo.road1, geo.road2,
                                                  geo.city, geo.state) >>]
    /\ UNCHANGED << ui, pipe, refn, deep, count, poly, calc, ocr, srv >>

\* geocodeAddress: the API key is not set, return null
GeoNoKey ==
    /\ geo.pc = "awaiting"
    /\ ~geo.hasKey
    /\ geo' = geoAnswered(geo, None)
    /\ UNCHANGED << ui, pipe, refn, deep, count, poly, calc, ocr, srv >>

\* geocodeAddress: data.status === "OK" && data.results?.[0]
GeoMatch ==
    /\ geo.pc = "awaiting"
    /\ geo.hasKey
    /\ \E place \in { "P1", "P2" } : geo' = geoAnswered(geo, Some(place))
    /\ UNCHANGED << ui, pipe, refn, deep, count, poly, calc, ocr, srv >>

\* geocodeAddress: any other status, return null
GeoNoMatch ==
    /\ geo.pc = "awaiting"
    /\ geo.hasKey
    /\ geo' = geoAnswered(geo, None)
    /\ UNCHANGED << ui, pipe, refn, deep, count, poly, calc, ocr, srv >>

\* geocodeAddress: fetch or response.json() rejects
GeoFetchFails ==
    /\ geo.pc = "awaiting"
    /\ geo.hasKey
    /\ geo' = IF geo.impl = "index.ts"
              THEN geoAnswered([geo EXCEPT !.fetchFailed = TRUE], None)
              ELSE [geo EXCEPT !.pc = "thrown", !.fetchFailed = TRUE]
    /\ UNCHANGED << ui, pipe, refn, deep, count, poly, calc, ocr, srv >>

GeoNext ==
    \/ GeoFirstQuery
    \/ GeoNoKey
    \/ GeoMatch
    \/ GeoNoMatch
    \/ GeoFetchFails

GeocodeSpec == GeoInit /\ [][GeoNext]_vars

(***************************************************************************)
(* Properties                                                              *)
(***************************************************************************)
\* the centre and the half spans of b are whole numbers of 6 and 1 angle
\* units, which keeps the divisions of centerOf, applyAdjustment and Cos exact
onGrid(b) ==
    /\ (b.north + b.south) % 12 = 0
    /\ (b.east + b.west) % 12 = 0
    /\ (b.north - b.south) % 2 = 0
    /\ (b.east - b.west) % 2 = 0

\* no division of the model rounds
ArithmeticExact ==
    /\ onGrid(bounds)
    /\ originalBounds # None => onGrid(Val(originalBounds))
    /\ deep.currentBoundsLocal # None => onGrid(Val(deep.currentBoundsLocal))

\* metres north and east from the centre of o to the centre of b, measured as
\* the deep-refine endpoint measures the current offset
displacementNorth(b, o) == latToMeters(centerOf(b).lat - centerOf(o).lat)
displacementEast(b, o) ==
    lngToMeters(centerOf(b).lng - centerOf(o).lng, centerOf(b).lat)

\* C1: after every deep-refine iteration that applied an adjustment, the centre
\* of currentBounds lies within maxShiftMeters of the centre of originalBounds
\* on the north axis and on the east axis.
C1_DisplacementWithinMaxShift ==
    (deep.last = "applied" /\ deep.originalBounds # None) =>
        LET b == Val(deep.currentBoundsLocal)
            o == Val(deep.originalBounds)
        IN  /\ Abs(displacementNorth(b, o)) <= Meters(maxShiftMeters)
            /\ Abs(displacementEast(b, o)) <= Meters(maxShiftMeters)

\* the stop reasons of the loop other than reaching maxIterations
EarlyStops == { "noAdjustment", "converged", "error" }

exitReasons(d) == { d.exits[i] : i \in DOMAIN d.exits }

\* C2: one handleDeepRefine call sends at most maxIterations requests; it is
\* still running only while no iteration has yielded no adjustment,
\* shouldContinue = false or an error; without such a stop it ends after the
\* request of iteration maxIterations; and when it ends isDeepRefining is false.
C2_DeepRefineBounded ==
    /\ [](/\ deep.requests <= maxIterations
          /\ deep.requests <= deep.iteration
          /\ deep.iteration <= maxIterations
          /\ (deep.pc # "idle" => deep.exits = << >>)
          /\ (deep.pc = "idle" /\ deep.iteration > 0
                  /\ exitReasons(deep) \cap EarlyStops = {}
                => deep.requests = maxIterations /\ deep.last = "applied"))
    /\ [][deep.pc # "idle" /\ deep'.pc = "idle" => ~isDeepRefining']_vars

\* a run that sent maxIterations requests and ended
C2_Witness ==
    /\ deep.pc = "idle"
    /\ deep.requests = maxIterations
    /\ exitReasons(deep) = { "maxIterations" }
    /\ ~isDeepRefining

\* the updateStep calls of a run in which every stage completes
StageOrder ==
    << StepEvent("read", "active"), StepEvent("read", "complete"),
       StepEvent("extract", "active"), StepEvent("extract", "complete"),
       StepEvent("geocode", "active"), StepEvent("geocode", "complete"),
       StepEvent("position", "active"), StepEvent("position", "complete"),
       StepEvent("refine", "active"), StepEvent("refine", "complete") >>

IsPrefix(s, u) == Len(s) <= Len(u) /\ SubSeq(u, 1, Len(s)) = s

\* the stage a run is in, by its position
stageOf(pc) ==
    CASE pc \in { "read1", "read2" } -> "read"
      [] pc = "extract" -> "extract"
      [] pc \in { "isect", "roads", "addr", "road" } -> "geocode"
      [] pc = "bounds" -> "position"
      [] OTHER -> "refine"

\* C3: the stages of one processDocument run start in the order read, extract,
\* geocode, position, refine, each after the previous one was marked complete,
\* and the work of a run in progress belongs to the stage started last (the road
\* geometry fetches run inside the geocode stage).
C3_StagesInOrder ==
    /\ IsPrefix(pipe.log, StageOrder)
    /\ pipe.pc # "idle" =>
          pipe.log[Len(pipe.log)] = StepEvent(stageOf(pipe.pc), "active")

\* a run that went through all five stages, the road fetches included
C3_Witness ==
    /\ pipe.log = StageOrder
    /\ \E i \in DOMAIN pipe.calls : pipe.calls[i] = "roads/geometry"

called(p, endpoint) == \E i \in DOMAIN p.calls : p.calls[i] = endpoint

\* the extracted data has a valid intersection, a city and an address, the
\* intersection geocode failed and the address geocode succeeded
addressFallbackTaken(p) ==
    /\ p.extracted # None
    /\ hasValidIntersection(Val(p.extracted))
    /\ Val(p.extracted).city
    /\ Val(p.extracted).address
    /\ called(p, "geocode/intersection")
    /\ called(p, "geocode:address")
    /\ p.geocodeData # None

C5_DisplayedBoundsGeocoded ==
    overlayImageUrl # NoDoc => positionedDoc = overlayImageUrl

\* C6: after a reset during a deep-refine run, the run starts no further
\* iteration and applies no adjustment.
C6_NoWorkAfterStop ==
    ~deep.startedAfterStop /\ ~deep.appliedAfterStop

\* C7: at most one of processDocument, requestRefinement and handleDeepRefine
\* is in progress.
C7_OneOperationAtATime ==
    /\ ~(pipe.pc # "idle" /\ refn.pc # "idle")
    /\ ~(pipe.pc # "idle" /\ deep.pc # "idle")
    /\ ~(refn.pc # "idle" /\ deep.pc # "idle")

\* C8: a deep-refine run that ended without an error reported exactly one exit
\* reason: no adjustment, converged, or maxIterations reached.
C8_ExactlyOneExitReason ==
    (deep.pc = "idle" /\ deep.iteration > 0 /\ deep.last # "error") =>
        /\ Len(deep.exits) = 1
        /\ deep.exits[1] \in { "noAdjustment", "converged", "maxIterations" }

\* C9: currentBounds always has north > south and east > west.
C9_BoundsWellFormed ==
    bounds.north > bounds.south /\ bounds.east > bounds.west

\* the step an error thrown before positioning belongs to
failedStage(reason) == IF reason \in ExtractFailures THEN "extract" ELSE "geocode"

\* C10: when the extract request or a geocode request fails, the run ends
\* failed with a reason, the step that failed is the one step marked error, no
\* further request is sent, and nothing is positioned or refined.
C10_FailureStopsPipeline ==
    [][(/\ pipe.pc \in { "extract", "isect", "addr", "road" }
        /\ pipe'.outcome = "failed")
       => /\ pipe'.pc = "idle"
          /\ pipe'.reason # "none"
          /\ pipe'.calls = pipe.calls
          /\ pipe'.boundsData = None
          /\ bounds' = bounds
          /\ ~isProcessing'
          /\ \E i \in DOMAIN processingSteps' :
               /\ processingSteps'[i] =
                      [id |-> failedStage(pipe'.reason), status |-> "error"]
               /\ \A j \in DOMAIN processingSteps' :
                      processingSteps'[j].status = "error" => j = i]_vars

\* C11: after a successful intersection geocode a geometry fetch is pending
\* for every distinct extracted road name at once; while fetches settle, OK or
\* not, the run stays in its geocode step and does not fail; it leaves the road
\* fetches only when none is pending, and then starts positioning with exactly
\* the roads whose fetch was OK highlighted.
C11_RoadFetchesBestEffort ==
    /\ [](pipe.pc = "roads" =>
            /\ pipe.outcome = "none"
            /\ pipe.roadsPending \cap pipe.roadsOk = {}
            /\ pipe.roadsPending \cup pipe.roadsOk
                   \subseteq allRoadNames(Val(pipe.extracted)))
    /\ [][(pipe.pc = "isect" /\ pipe'.pc = "roads")
          => /\ pipe'.roadsPending = allRoadNames(Val(pipe'.extracted))
             /\ pipe'.roadsOk = {}]_vars
    /\ [][(pipe.pc = "roads" /\ pipe'.pc # "roads")
          => /\ pipe.roadsPending = {}
             /\ pipe'.pc = "bounds"
             /\ pipe'.outcome = "none"
             /\ roadPolylines' =
                    { [doc |-> pipe.doc, roadName |-> n] : n \in pipe.roadsOk }]_vars

\* positioning has started after one road's fetch failed and another's was OK
C11_Witness ==
    /\ pipe.pc = "bounds"
    /\ called(pipe, "roads/geometry")
    /\ pipe.roadsOk # {}
    /\ pipe.roadsOk # allRoadNames(Val(pipe.extracted))
    /\ roadPolylines = { [doc |-> pipe.doc, roadName |-> n] : n \in pipe.roadsOk }

\* C12: once a new upload has started (sessionId names its document), the road
\* polylines, the geocoded intersections and originalBounds held by the page
\* are those of that document, and a deep-refine run clamps against the
\* originalBounds of the document whose overlay it sends.
C12_SessionStatePerDocument ==
    /\ sessionId # NoDoc =>
            /\ \A r \in roadPolylines : r.doc = sessionId
            /\ \A i \in DOMAIN geocodedIntersections :
                    geocodedIntersections[i].doc = sessionId
            /\ originalBounds # None => positionedDoc = sessionId
    /\ (deep.pc # "idle" /\ deep.originalBounds # None) =>
            deep.originalDoc = deep.overlay

\* C13: decodePolyline returns for every input string: every pass of an inner
\* loop moves the cursor forward by one, a read at or past the end of the
\* string ends its inner loop, the while loop exits as soon as it tests a
\* cursor at or past the length, and the cursor never passes length + 2.
C13_DecodeTerminates ==
    /\ <>(poly.pc = "done")
    /\ [](poly.idx <= Len(poly.encoded) + 2)
    /\ [][(poly.pc \in { "lat", "lng" }) =>
            /\ poly'.idx = poly.idx + 1
            /\ poly.idx >= Len(poly.encoded) => poly'.pc # poly.pc]_vars
    /\ [][(poly.pc = "while" /\ poly.idx >= Len(poly.encoded)) =>
            poly'.pc = "done"]_vars

\* a truncated input has been decoded to the end: its last value was cut off
\* and the cursor went past the end of the string
C13_Witness ==
    /\ poly.pc = "done"
    /\ Len(poly.encoded) = MaxPolyLen
    /\ poly.idx = Len(poly.encoded) + 2

\* C14: decoding Google's example polyline returns exactly 3 points, in path
\* order (38.5, -120.2), (40.7, -120.95), (43.252, -126.453); a point is pushed
\* only when a longitude value ends, which follows the latitude value of the
\* same point, and it is the pair of the accumulated lat and lng.
C14_GoogleExampleDecodes ==
    /\ []((poly.pc = "done" /\ poly.encoded = GoogleExample) =>
            /\ poly.points = << [lat |-> 3850000, lng |-> -12020000],
                                [lat |-> 4070000, lng |-> -12095000],
                                [lat |-> 4325200, lng |-> -12645300] >>
            /\ 10 * poly.points[1].lat = 385 * PolyPrecision
            /\ 10 * poly.points[1].lng = -1202 * PolyPrecision)
    /\ [][(poly.pc = "lat" /\ poly'.pc # "lat") =>
            (poly'.pc = "lng" /\ poly'.points = poly.points)]_vars
    /\ [][poly'.points # poly.points =>
            /\ poly.pc = "lng"
            /\ poly'.points = Append(poly.points, [lat |-> poly'.lat,
                                                   lng |-> poly'.lng])
            /\ poly'.lat = poly.lat]_vars

\* the example has been decoded to its end
C14_Witness ==
    /\ poly.pc = "done"
    /\ poly.encoded = GoogleExample
    /\ Len(poly.points) = 3

\* C15: decodePolyline of the empty string returns the empty sequence: the
\* while loop exits at its first test, without reading a character.
C15_EmptyDecodesToEmpty ==
    /\ []((poly.pc # "none" /\ poly.encoded = << >>) =>
            /\ poly.pc \in { "while", "done" }
            /\ poly.idx = 0
            /\ poly.points = << >>)
    /\ [][(poly.pc = "while" /\ poly.encoded = << >>) => poly'.pc = "done"]_vars

\* the call with the empty string has returned
C15_Witness ==
    /\ poly.pc = "done"
    /\ poly.encoded = << >>
    /\ poly.points = << >>

\* C16: calculateBoundsFromCorner returns bounds whose named corner is the
\* input corner exactly and whose opposite corner lies the full height south
\* or north and the full width east or west of it, toward the interior; a
\* corner value other than the four positions is handled as northwest.
C16_CornerAnchored ==
    (calc.pc = "returned" /\ calc.fn = "calculateBoundsFromCorner") =>
        LET b == Val(calc.result)
            named == IF calc.cornerPosition \in CornerPositions
                     THEN calc.cornerPosition ELSE "northwest"
            height == metersToLat(planHeight(calc.sizeMeters, calc.aspect))
            width == metersToLng(planWidth(calc.sizeMeters, calc.aspect),
                                 calc.corner.lat)
            far == cornerOf(b, oppositeCorner(named))
        IN  /\ cornerOf(b, named) = calc.corner
            /\ height > 0 /\ width > 0
            /\ far.lat = IF named \in { "northwest", "northeast" }
                         THEN calc.corner.lat - height
                         ELSE calc.corner.lat + height
            /\ far.lng = IF named \in { "northwest", "southwest" }
                         THEN calc.corner.lng + width
                         ELSE calc.corner.lng - width
            /\ b.north - b.south = height
            /\ b.east - b.west = width

\* a call with a value outside the four positions, for a plan that is not
\* square, has returned bounds anchored at their northwest corner
C16_Witness ==
    /\ calc.pc = "returned"
    /\ calc.fn = "calculateBoundsFromCorner"
    /\ calc.cornerPosition = "unknown"
    /\ calc.aspect.w # calc.aspect.h
    /\ Val(calc.result).north = calc.corner.lat
    /\ Val(calc.result).west = calc.corner.lng

\* C17: applyAdjustment with a null adjustment returns its bounds to within
\* floating-point rounding: each edge is at most two units in the last place
\* of the larger of the two opposite edges away from the edge it was given.
C17_NullAdjustmentWithinRounding ==
    (calc.pc = "returned" /\ calc.fn = "applyAdjustment" /\ calc.scaleFactor = 1) =>
        LET b == calc.currentBounds
            r == Val(calc.result)
            epsLat == 2 * ulp(Max(Abs(b.north), Abs(b.south)))
            epsLng == 2 * ulp(Max(Abs(b.east), Abs(b.west)))
        IN  /\ Abs(r.north - b.north) <= epsLat
            /\ Abs(r.south - b.south) <= epsLat
            /\ Abs(r.east - b.east) <= epsLng
            /\ Abs(r.west - b.west) <= epsLng

\* a call whose result differs from its bounds has returned
C17_Witness ==
    /\ calc.pc = "returned"
    /\ calc.fn = "applyAdjustment"
    /\ calc.scaleFactor = 1
    /\ Val(calc.result) # calc.currentBounds

\* C17 as stated: applyAdjustment with a null adjustment returns exactly the
\* bounds it was given.
C17_NullAdjustmentIsIdentity ==
    (calc.pc = "returned" /\ calc.fn = "applyAdjustment" /\ calc.scaleFactor = 1) =>
        Val(calc.result) = calc.currentBounds

\* C18: the sizeMeters of a bounds request is estimatedSizeMeters when that is
\* present, else 100, clamped to [10, 500].
C18_SizeClamped ==
    pipe.sizeMeters # None =>
        LET estimated == Val(pipe.extracted).estimatedSizeMeters
            present == IF estimated # None THEN Val(estimated) ELSE 100
        IN  /\ Val(pipe.sizeMeters) >= 10
            /\ Val(pipe.sizeMeters) <= 500
            /\ Val(pipe.sizeMeters) = Max(10, Min(500, present))

\* C19: a call of ocrPageWithRetry or ocrWithRetry makes at most maxRetries
\* attempts (3 when the argument is left out); before its n-th attempt it has
\* waited 1000 * 2^0, ..., 1000 * 2^(n-2) ms, each wait following a rate-limit
\* error; an error that is not a rate-limit error, and any error of the last
\* attempt, ends the call rethrown with no wait; a successful attempt ends the
\* call with that attempt's result.
C19_BoundedRetry ==
    /\ [](ocr.pc # "none" =>
            /\ ocr.attempts <= ocr.maxRetries
            /\ ocr.arg = None => ocr.maxRetries = 3
            /\ ocr.attempts >= 1 =>
                    Len(ocr.delays) \in { ocr.attempts - 1, ocr.attempts }
            /\ ocr.pc = "try" => Len(ocr.delays) = ocr.attempts - 1
            /\ \A i \in DOMAIN ocr.delays : ocr.delays[i] = 1000 * 2 ^ (i - 1)
            /\ ocr.outcome = "returned" =>
                    /\ ocr.result = Some(ocr.attempts - 1)
                    /\ Len(ocr.delays) = ocr.attempts - 1
            /\ (ocr.outcome = "thrown" /\ ocr.attempts >= 1) =>
                    /\ ocr.thrown = ocr.last
                    /\ Len(ocr.delays) = ocr.attempts - 1
                    /\ \/ ~isRateLimitError(Val(ocr.last))
                       \/ ocr.attempts = ocr.maxRetries)
    /\ [][(ocr.pc = "try" /\ ocr'.pc = "sleep") =>
            /\ isRateLimitError(Val(ocr'.last))
            /\ ocr.attempts < ocr.maxRetries]_vars
    /\ [][(ocr.pc = "try" /\ ocr'.last # ocr.last /\ ocr'.pc # "sleep") =>
            (ocr'.pc = "done" /\ ocr'.thrown = ocr'.last)]_vars
    /\ [][ocr'.attempts # ocr.attempts =>
            (ocr.attempts = 0 \/ (ocr.last # None /\ isRateLimitError(Val(ocr.last))))]_vars

\* a call without the maxRetries argument was rate limited on its three
\* attempts: it waited 1 s, then 2 s, and rethrew the third error
C19_Witness ==
    /\ ocr.pc = "done"
    /\ ocr.arg = None
    /\ ocr.attempts = 3
    /\ ocr.delays = << 1000, 2000 >>
    /\ ocr.outcome = "thrown"
    /\ isRateLimitError(Val(ocr.thrown))

\* C20: the history stored for a session is the sequence of the user and model
\* entries that the completed refine requests of that session appended since
\* the session was last deleted, in the order of their completion: nothing is
\* lost, removed, rewritten or added from elsewhere.
C20_HistoryAppendOnly ==
    srv.pc # "none" => \A k \in SessionKeys : historyOf(k) = srv.appended[k]

\* C21: the shouldContinue flag of a deep-refinement iteration is true exactly
\* when an adjustment was returned, its confidence is below 0.9, and the shift
\* that was applied, which is the proposed shift after the clamp to
\* maxShiftMeters, moves the centre by more than 2 m north or east.
C21_ContinueOnAppliedShift ==
    (/\ calc.pc = "returned" /\ calc.fn = "deep-refine"
     /\ calc.ai # None => isAdjustment(Val(calc.ai))) =>
        LET r == Val(calc.result)
            from == centerOf(calc.currentBounds)
            to == centerOf(Val(r.newBounds))
            movedNorth == latToMeters(to.lat - from.lat)
            movedEast == lngToMeters(to.lng - from.lng, from.lat)
        IN  r.shouldContinue =
                /\ calc.ai # None
                /\ r.adjustment # None
                /\ Val(calc.ai).confidence < 90
                /\ \/ Abs(movedNorth) > Meters(2)
                   \/ Abs(movedEast) > Meters(2)

\* an iteration whose proposed shift of 150 m was clamped to nothing at the
\* 200 m limit has returned shouldContinue false at confidence 0.5
C21_Witness ==
    /\ calc.pc = "returned"
    /\ calc.fn = "deep-refine"
    /\ calc.ai = Some(Adjustment(Meters(150), 0, 1, 50))
    /\ Val(calc.result).boundsClamped
    /\ Val(calc.result).newBounds = Some(calc.currentBounds)
    /\ ~Val(calc.result).shouldContinue

\* C21 as stated: shouldContinue is true exactly when an adjustment was
\* returned, its confidence is below 0.9 and the shift proposed by the AI
\* exceeds 2 m on the north or the east axis.
C21_ContinueOnProposedShift ==
    (/\ calc.pc = "returned" /\ calc.fn = "deep-refine"
     /\ calc.ai # None => isAdjustment(Val(calc.ai))) =>
        Val(calc.result).shouldContinue =
            /\ calc.ai # None
            /\ Val(calc.ai).confidence < 90
            /\ \/ Abs(Val(calc.ai).north) > Meters(2)
               \/ Abs(Val(calc.ai).east) > Meters(2)

\* C22: when the extracted data has an intersection with a known corner and a
\* city, a run that geocodes the address has attempted the intersection geocode
\* before.
C22_IntersectionAttemptedFirst ==
    (/\ pipe.extracted # None
     /\ \E i \in DOMAIN Val(pipe.extracted).intersections :
            Val(pipe.extracted).intersections[i] # "unknown"
     /\ Val(pipe.extracted).city
     /\ \/ called(pipe, "geocode:address")
        \/ called(pipe, "geocode:road"))
    => /\ called(pipe, "geocode/intersection")
       /\ pipe.calls[1] = "geocode/intersection"

\* C23: when no intersection was geocoded and the extracted data has no street
\* address but a road and a city, the geocode request of the run is the one for
\* the primary road, and the run does not fail with an address geocode error.
C23_RoadFallback ==
    (/\ pipe.extracted # None
     /\ ~Val(pipe.extracted).address
     /\ Len(Val(pipe.extracted).roads) > 0
     /\ Val(pipe.extracted).city
     /\ ~called(pipe, "roads/geometry")
     /\ pipe.pc \notin { "idle", "read1", "read2", "extract", "isect" })
    => /\ called(pipe, "geocode:road")
       /\ ~called(pipe, "geocode:address")

\* C24: a run whose intersection geocode succeeded requests its bounds from the
\* corner variant, and the bounds it gets have the geocoded point at the corner
\* recorded from the first intersection; a run requests the center variant only
\* after the address or road geocode gave the point.
C24_CornerVariantAfterIntersection ==
    /\ (called(pipe, "roads/geometry") /\ pipe.pc \notin { "isect", "roads" }) =>
            /\ called(pipe, "bounds/from-corner")
            /\ ~called(pipe, "bounds/calculate")
            /\ pipe.useCornerBased
            /\ pipe.cornerPosition = Val(pipe.extracted).intersections[1]
            /\ pipe.boundsData # None =>
                    cornerOf(Val(pipe.boundsData), pipe.cornerPosition)
                        = Val(pipe.geocodeData)
    /\ called(pipe, "bounds/calculate") =>
            /\ ~called(pipe, "roads/geometry")
            /\ called(pipe, "geocode:address") \/ called(pipe, "geocode:road")
            /\ pipe.boundsData # None =>
                    centerOf(Val(pipe.boundsData)) = Val(pipe.geocodeData)

\* a run got corner-anchored bounds after its intersection geocode
C24_Witness ==
    /\ called(pipe, "roads/geometry")
    /\ called(pipe, "bounds/from-corner")
    /\ pipe.boundsData # None
    /\ Val(pipe.boundsData).north = Val(pipe.geocodeData).lat
    /\ Val(pipe.boundsData).west = Val(pipe.geocodeData).lng

\* C25: a refinement pass that got no adjustment does not report that an
\* adjustment was made: the refine step of processDocument ends with the detail
\* "Alignment adjusted" only when the complete event carried an adjustment.
C25_NoAdjustmentReported ==
    (pipe.detail = "Alignment adjusted") =>
        /\ pipe.refineResult # None
        /\ Val(pipe.refineResult).adjustment # None
        /\ Val(pipe.refineResult).newBounds # None

\* C26: for an AI answer that is not a structured adjustment, POST
\* /api/ai/refine and POST /api/ai/deep-refine end their stream with a complete
\* event whose adjustment and newBounds are null, not with an error event.
C26_UnparsedIsNoAdjustment ==
    (/\ calc.pc = "returned"
     /\ calc.fn \in { "refine", "deep-refine" }
     /\ calc.ai = None \/ ~isAdjustment(Val(calc.ai))) =>
        /\ Val(calc.result).event = "complete"
        /\ Val(calc.result).adjustment = None
        /\ Val(calc.result).newBounds = None

\* C27: applyAdjustment(b, a) has its centre at b's centre moved north by
\* a.shiftMeters.north / 111000 degrees and east by a.shiftMeters.east /
\* (cos(latitude of b's centre) * 111000) degrees, and spans that are b's spans
\* times a.scaleFactor; its centre is the one it has for scaleFactor 1 and its
\* spans are the ones it has for a zero shift.
C27_ShiftThenScale ==
    (calc.pc = "returned" /\ calc.fn = "applyAdjustment (exact units)") =>
        LET b == calc.currentBounds
            a == calc.adjustment
            r == Val(calc.result)
            unscaled == applyAdjustment(b, [a EXCEPT !.scaleFactor = 1])
            unshifted == applyAdjustment(b, [a EXCEPT !.north = 0, !.east = 0])
        IN  /\ (r.north + r.south) % 2 = 0 /\ (r.east + r.west) % 2 = 0
            /\ centerOf(r).lat = centerOf(b).lat + metersToLat(a.north)
            /\ centerOf(r).lng = centerOf(b).lng + metersToLng(a.east, centerOf(b).lat)
            /\ r.north - r.south = (b.north - b.south) * a.scaleFactor
            /\ r.east - r.west = (b.east - b.west) * a.scaleFactor
            /\ centerOf(r) = centerOf(unscaled)
            /\ r.north - r.south = unshifted.north - unshifted.south
            /\ r.east - r.west = unshifted.east - unshifted.west

\* a call with a shift on both axes and scaleFactor 2 has returned
C27_Witness ==
    /\ calc.pc = "returned"
    /\ calc.fn = "applyAdjustment (exact units)"
    /\ calc.adjustment.north # 0
    /\ calc.adjustment.east # 0
    /\ calc.adjustment.scaleFactor = 2
    /\ centerOf(Val(calc.result)) # centerOf(calc.currentBounds)

\* C28: geocodeIntersection queries "road1 & road2, city, state" first and
\* "road1 and road2, city, state" only after the first query returned no match;
\* it makes at most two queries, returns the first match, returns null only
\* after two queries without a match, and throws only when a fetch failed.
C28_FallbackOnlyAfterNoMatch ==
    geo.pc # "none" =>
        LET first == intersectionQuery(geo.road1, geo.road2, geo.city, geo.state)
            second == fallbackQuery(geo.road1, geo.road2, geo.city, geo.state)
        IN  /\ Len(geo.queries) <= 2
            /\ Len(geo.answers) <= Len(geo.queries)
            /\ Len(geo.queries) >= 1 => geo.queries[1] = first
            /\ Len(geo.queries) = 2 =>
                  /\ geo.queries[2] = second
                  /\ Len(geo.answers) >= 1
                  /\ geo.answers[1] = None
            /\ geo.pc = "returned" =>
                  /\ Len(geo.answers) = Len(geo.queries)
                  /\ geo.result = geo.answers[Len(geo.answers)]
                  /\ \A i \in 1..(Len(geo.answers) - 1) : geo.answers[i] = None
                  /\ geo.result = None =>
                        /\ Len(geo.answers) = 2
                        /\ geo.answers[1] = None
                        /\ geo.answers[2] = None
            /\ geo.pc = "thrown" => geo.fetchFailed

\* a call has returned the match of its fallback query
C28_Witness ==
    /\ geo.pc = "returned"
    /\ Len(geo.queries) = 2
    /\ geo.answers[1] = None
    /\ geo.result # None

\* C29: for every input string, well formed, malformed or truncated,
\* decodePolyline of src/index.ts and decodePolyline of server/lib/roads.ts
\* return the same sequence of points.
C29_SameDecoding ==
    (poly.pc = "done" /\ poly.indexPoints # None) =>
        Val(poly.indexPoints) = poly.points

\* both copies have decoded a string that ends in the middle of a number and
\* holds a character below '?', and returned a point
C29_Witness ==
    /\ poly.pc = "done"
    /\ poly.indexPoints # None
    /\ Len(poly.encoded) > 0
    /\ poly.encoded[Len(poly.encoded)] >= 95
    /\ \E i \in 1..Len(poly.encoded) : poly.encoded[i] = 32
    /\ Len(poly.points) > 0

\* C30: during a processDocument run the five steps are complete*, then at
\* most one active or error step, then pending*; when the run fails, the step
\* it marked active last is the one step that is error, the steps before it
\* are complete and the steps after it pending; when the run ends no step is
\* left active.
C30_StepsInOrder ==
    [][LET stepsInOrder(steps) ==
               /\ Len(steps) = Len(StepIds)
               /\ \A i \in DOMAIN steps : steps[i].id = StepIds[i]
               /\ \E k \in 0..Len(steps) :
                   /\ \A i \in 1..k : steps[i].status = "complete"
                   /\ \A i \in (k + 2)..Len(steps) : steps[i].status = "pending"
       IN  /\ pipe'.pc # "idle" => stepsInOrder(processingSteps')
           /\ (pipe.pc # "idle" /\ pipe'.pc = "idle") =>
                /\ stepsInOrder(processingSteps')
                /\ \A i \in DOMAIN processingSteps' :
                        processingSteps'[i].status # "active"
           /\ (pipe.pc # "idle" /\ pipe'.outcome = "failed") =>
                LET last == pipe'.log[Len(pipe'.log)]
                IN  /\ last.status = "active"
                    /\ stepsInOrder(processingSteps')
                    /\ \E i \in DOMAIN processingSteps' :
                            /\ processingSteps'[i] =
                                   [id |-> last.id, status |-> "error"]
                            /\ \A j \in DOMAIN processingSteps' \ { i } :
                                    processingSteps'[j].status # "error"]_vars

====
